---- MODULE Spec2Model ----
(***************************************************************************)
(* Model of the algtoolsUI tool of the algtools MCP worker: the stories    *)
(* fetcher (fetchStoriesJson), the component resolver                      *)
(* (findMatchingComponent) and the tool handler with its four outcomes     *)
(* (summary, detail, not-found, fetch error).                              *)
(*                                                                         *)
(* JavaScript strings are sequences of one-character strings, so that      *)
(* toLowerCase, split, includes, slice and join are computed as the        *)
(* runtime computes them.                                                  *)
(***************************************************************************)
EXTENDS Integers, Sequences, FiniteSets, TLC

(***************************************************************************)
(* String primitives of the runtime used by the source.                    *)
(***************************************************************************)

UpperChars ==
    << "A", "B", "C", "D", "E", "F", "G", "H", "I", "J", "K", "L", "M",
       "N", "O", "P", "Q", "R", "S", "T", "U", "V", "W", "X", "Y", "Z" >>

LowerChars ==
    << "a", "b", "c", "d", "e", "f", "g", "h", "i", "j", "k", "l", "m",
       "n", "o", "p", "q", "r", "s", "t", "u", "v", "w", "x", "y", "z" >>

DigitChars ==
    << "0", "1", "2", "3", "4", "5", "6", "7", "8", "9" >>

\* One character of String.prototype.toLowerCase.
LowerChar(ch) ==
    IF \E i \in DOMAIN UpperChars : UpperChars[i] = ch
    THEN LowerChars[CHOOSE i \in DOMAIN UpperChars : UpperChars[i] = ch]
    ELSE ch

\* String.prototype.toLowerCase.
toLowerCase(s) ==
    [i \in 1..Len(s) |-> LowerChar(s[i])]

\* String.prototype.includes: sub occurs in s at some offset.
includes(s, sub) ==
    \E off \in 0..(Len(s) - Len(sub)) :
        \A j \in 1..Len(sub) : s[off + j] = sub[j]

\* String.prototype.split(sep) for a one-character separator: the segments
\* between the separators, in order (a string without separator is one
\* segment; a trailing separator yields a final empty segment).
RECURSIVE splitFrom(_, _, _, _)
splitFrom(s, sep, i, cur) ==
    IF i > Len(s) THEN << cur >>
    ELSE IF s[i] = sep THEN << cur >> \o splitFrom(s, sep, i + 1, << >>)
    ELSE splitFrom(s, sep, i + 1, Append(cur, s[i]))

split(s, sep) ==
    splitFrom(s, sep, 1, << >>)

\* Array.prototype.pop applied to a fresh array: its last element.
pop(arr) ==
    arr[Len(arr)]

\* Array.prototype.slice(from, to) with 0 <= from <= to (zero-based, end
\* exclusive, clamped to the array's length).
slice(arr, from, to) ==
    SubSeq(arr, from + 1, IF to < Len(arr) THEN to ELSE Len(arr))

\* Array.prototype.join(sep) over an array of strings.
RECURSIVE join(_, _)
join(arr, sep) ==
    IF Len(arr) = 0 THEN << >>
    ELSE IF Len(arr) = 1 THEN arr[1]
    ELSE arr[1] \o sep \o join(Tail(arr), sep)

\* Decimal rendering of a non-negative integer inside a template literal.
RECURSIVE numberToString(_)
numberToString(n) ==
    IF n < 10 THEN << DigitChars[n + 1] >>
    ELSE numberToString(n \div 10) \o << DigitChars[(n % 10) + 1] >>

(***************************************************************************)
(* String literals of the source.                                          *)
(***************************************************************************)

\* "https://algtools.github.io/ui/stories.json"
STORIES_URL ==
    "https://algtools.github.io/ui/stories.json"

\* `Could not fetch stories.json. Status: ${response.status}`
FetchErrorPrefix ==
    << "C", "o", "u", "l", "d", " ", "n", "o", "t", " ", "f", "e", "t", "c", "h", " ",
       "s", "t", "o", "r", "i", "e", "s", ".", "j", "s", "o", "n", ".", " ", "S", "t",
       "a", "t", "u", "s", ":", " " >>

\* `Component "${componentName}" not found. Available components: ...`
NotFoundHead ==
    << "C", "o", "m", "p", "o", "n", "e", "n", "t", " ", "\"" >>

NotFoundMid ==
    << "\"", " ", "n", "o", "t", " ", "f", "o", "u", "n", "d", ".", " ", "A", "v", "a",
       "i", "l", "a", "b", "l", "e", " ", "c", "o", "m", "p", "o", "n", "e", "n", "t",
       "s", ":", " " >>

\* .join(", ")
CommaSpace ==
    << ",", " " >>

\* `... (${totalCount} total)`
MoreHead ==
    << ".", ".", ".", " ", "(" >>

MoreTail ==
    << " ", "t", "o", "t", "a", "l", ")" >>

\* `Error: Failed to fetch component information from stories.json. ${...}. Please check if ...`
ErrorHead ==
    << "E", "r", "r", "o", "r", ":", " ", "F", "a", "i", "l", "e", "d", " ", "t", "o",
       " ", "f", "e", "t", "c", "h", " ", "c", "o", "m", "p", "o", "n", "e", "n", "t",
       " ", "i", "n", "f", "o", "r", "m", "a", "t", "i", "o", "n", " ", "f", "r", "o",
       "m", " ", "s", "t", "o", "r", "i", "e", "s", ".", "j", "s", "o", "n", ".", " " >>

ErrorHint ==
    << ".", " ", "P", "l", "e", "a", "s", "e", " ", "c", "h", "e", "c", "k", " ", "i",
       "f", " ", "t", "h", "e", " ", "s", "t", "o", "r", "i", "e", "s", ".", "j", "s",
       "o", "n", " ", "i", "s", " ", "a", "c", "c", "e", "s", "s", "i", "b", "l", "e",
       " ", "a", "t", " ", "h", "t", "t", "p", "s", ":", "/", "/", "a", "l", "g", "t",
       "o", "o", "l", "s", ".", "g", "i", "t", "h", "u", "b", ".", "i", "o", "/", "u",
       "i", "/", "s", "t", "o", "r", "i", "e", "s", ".", "j", "s", "o", "n" >>

\* The note of the summary listing.
SummaryNote ==
    << "U", "s", "e", " ", "t", "h", "e", " ", "'", "c", "o", "m", "p", "o", "n", "e",
       "n", "t", "N", "a", "m", "e", "'", " ", "p", "a", "r", "a", "m", "e", "t", "e",
       "r", " ", "t", "o", " ", "g", "e", "t", " ", "d", "e", "t", "a", "i", "l", "e",
       "d", " ", "i", "n", "f", "o", "r", "m", "a", "t", "i", "o", "n", " ", "a", "b",
       "o", "u", "t", " ", "a", " ", "s", "p", "e", "c", "i", "f", "i", "c", " ", "c",
       "o", "m", "p", "o", "n", "e", "n", "t", ",", " ", "i", "n", "c", "l", "u", "d",
       "i", "n", "g", " ", "i", "t", "s", " ", "p", "r", "o", "p", "s", ",", " ", "a",
       "v", "a", "i", "l", "a", "b", "l", "e", " ", "s", "t", "o", "r", "i", "e", "s",
       ",", " ", "a", "n", "d", " ", "u", "s", "a", "g", "e", " ", "e", "x", "a", "m",
       "p", "l", "e", "s", "." >>

(***************************************************************************)
(* JavaScript values.  The fetched document is parsed JSON, and the tool   *)
(* answers with JSON.stringify(value, null, 2).  An object is the sequence *)
(* of its [key, value] members in insertion order (distinct keys), which   *)
(* is the order Object.entries, Object.values, Object.keys and             *)
(* JSON.stringify visit them in.                                           *)
(***************************************************************************)

JUndefined == [t |-> "undefined"]

JNull == [t |-> "null"]

JString(s) == [t |-> "string", str |-> s]

JNumber(n) == [t |-> "number", num |-> n]

JBoolean(b) == [t |-> "boolean", bool |-> b]

JArray(items) == [t |-> "array", items |-> items]

JObject(members) == [t |-> "object", members |-> members]

Member(key, value) == [key |-> key, value |-> value]

\* Property names read or written by the source.
K_components ==
    << "c", "o", "m", "p", "o", "n", "e", "n", "t", "s" >>

K_title ==
    << "t", "i", "t", "l", "e" >>

K_componentPath ==
    << "c", "o", "m", "p", "o", "n", "e", "n", "t", "P", "a", "t", "h" >>

K_importPath ==
    << "i", "m", "p", "o", "r", "t", "P", "a", "t", "h" >>

K_description ==
    << "d", "e", "s", "c", "r", "i", "p", "t", "i", "o", "n" >>

K_props ==
    << "p", "r", "o", "p", "s" >>

K_storyCount ==
    << "s", "t", "o", "r", "y", "C", "o", "u", "n", "t" >>

K_stories ==
    << "s", "t", "o", "r", "i", "e", "s" >>

K_storybookUrl ==
    << "s", "t", "o", "r", "y", "b", "o", "o", "k", "U", "r", "l" >>

K_hasProps ==
    << "h", "a", "s", "P", "r", "o", "p", "s" >>

K_totalComponents ==
    << "t", "o", "t", "a", "l", "C", "o", "m", "p", "o", "n", "e", "n", "t", "s" >>

K_note ==
    << "n", "o", "t", "e" >>

K_id ==
    << "i", "d" >>

K_name ==
    << "n", "a", "m", "e" >>

K_control ==
    << "c", "o", "n", "t", "r", "o", "l" >>

\* obj.key: the member's value, undefined when obj has no such member.
prop(obj, key) ==
    IF \E i \in DOMAIN obj.members : obj.members[i].key = key
    THEN obj.members[CHOOSE i \in DOMAIN obj.members : obj.members[i].key = key].value
    ELSE JUndefined

\* Object.entries / Object.values / Object.keys.
ObjectEntries(obj) ==
    obj.members

ObjectValues(obj) ==
    [i \in 1..Len(obj.members) |-> obj.members[i].value]

ObjectKeys(obj) ==
    [i \in 1..Len(obj.members) |-> obj.members[i].key]

\* `x || {}` where x is an object or undefined.
OrEmptyObject(x) ==
    IF x.t \in {"undefined", "null"} THEN JObject(<< >>) ELSE x

\* The quoted form of a string in JSON text: the quote and the backslash
\* are escaped by a backslash, every other character stands for itself.
escaped(ch) ==
    ch \in {"\"", "\\"}

quoteChars(s) ==
    IF \A i \in DOMAIN s : ~escaped(s[i]) THEN s
    ELSE
        LET start(i) == i + Cardinality({j \in 1..(i - 1) : escaped(s[j])})
            total    == Len(s) + Cardinality({j \in DOMAIN s : escaped(s[j])})
            at(k)    == CHOOSE i \in DOMAIN s :
                            \/ start(i) = k
                            \/ escaped(s[i]) /\ start(i) + 1 = k
        IN  [k \in 1..total |->
                IF escaped(s[at(k)]) /\ start(at(k)) = k THEN "\\" ELSE s[at(k)]]

quote(s) ==
    << "\"" >> \o quoteChars(s) \o << "\"" >>

\* n spaces.
spaces(n) ==
    [i \in 1..n |-> " "]

\* JSON.stringify(value, null, 2) at nesting depth `depth`
\* (indentation of two spaces per level).  Members whose value is undefined
\* are left out of an object.
RECURSIVE stringifyAt(_, _)
RECURSIVE stringifyMembers(_, _, _)
RECURSIVE stringifyItems(_, _, _)
stringifyMembers(members, depth, first) ==
    IF members = << >> THEN << >>
    ELSE IF Head(members).value.t = "undefined"
         THEN stringifyMembers(Tail(members), depth, first)
         ELSE (IF first THEN << >> ELSE << "," >>)
              \o << "\n" >> \o spaces(2 * depth)
              \o quote(Head(members).key) \o << ":", " " >>
              \o stringifyAt(Head(members).value, depth)
              \o stringifyMembers(Tail(members), depth, FALSE)

stringifyItems(items, depth, first) ==
    IF items = << >> THEN << >>
    ELSE (IF first THEN << >> ELSE << "," >>)
         \o << "\n" >> \o spaces(2 * depth)
         \o stringifyAt(Head(items), depth)
         \o stringifyItems(Tail(items), depth, FALSE)

stringifyAt(value, depth) ==
    CASE value.t = "string"  -> quote(value.str)
      [] value.t = "number"  -> numberToString(value.num)
      [] value.t = "boolean" ->
             IF value.bool THEN << "t", "r", "u", "e" >>
             ELSE << "f", "a", "l", "s", "e" >>
      [] value.t = "null"    -> << "n", "u", "l", "l" >>
      [] value.t = "array"   ->
             IF value.items = << >> THEN << "[", "]" >>
             ELSE << "[" >> \o stringifyItems(value.items, depth + 1, TRUE)
                  \o << "\n" >> \o spaces(2 * depth) \o << "]" >>
      [] value.t = "object"  ->
             LET body == stringifyMembers(value.members, depth + 1, TRUE)
             IN  IF body = << >> THEN << "{", "}" >>
                 ELSE << "{" >> \o body
                      \o << "\n" >> \o spaces(2 * depth) \o << "}" >>

stringify(value) ==
    stringifyAt(value, 0)

(***************************************************************************)
(* Resolver: findMatchingComponent.                                        *)
(***************************************************************************)

\* titleLower.split("/").pop() || ""
titleWithoutCategoryOf(titleLower) ==
    LET last == pop(split(titleLower, "/"))
    IN  IF last = << >> THEN << >> ELSE last

\* Fault: the first loop does not compare the mapping key.
exactConditionWithoutKey(entry, componentNameLower) ==
    LET titleLower == toLowerCase(prop(entry.value, K_title).str)
        titleWithoutCategory == titleWithoutCategoryOf(titleLower)
    IN  \/ titleLower = componentNameLower
        \/ titleWithoutCategory = componentNameLower

\* Fault: the mapping key is compared as it is spelled.
exactConditionRawKey(entry, componentNameLower) ==
    LET titleLower == toLowerCase(prop(entry.value, K_title).str)
        titleWithoutCategory == titleWithoutCategoryOf(titleLower)
    IN  \/ titleLower = componentNameLower
        \/ titleWithoutCategory = componentNameLower
        \/ entry.key = componentNameLower

\* Fault: the second loop also takes a title that the name contains.
partialConditionEitherWay(component, componentNameLower) ==
    LET titleLower == toLowerCase(prop(component, K_title).str)
        titleWithoutCategory == titleWithoutCategoryOf(titleLower)
    IN  \/ includes(titleLower, componentNameLower)
        \/ includes(titleWithoutCategory, componentNameLower)
        \/ includes(componentNameLower, titleLower)
        \/ includes(componentNameLower, titleWithoutCategory)

\* Fault: the mapping key is searched for the name.
exactConditionKeyIncludes(entry, componentNameLower) ==
    LET titleLower == toLowerCase(prop(entry.value, K_title).str)
        titleWithoutCategory == titleWithoutCategoryOf(titleLower)
    IN  \/ titleLower = componentNameLower
        \/ titleWithoutCategory = componentNameLower
        \/ includes(toLowerCase(entry.key), componentNameLower)

\* The condition of the first loop, on one [key, component] entry.
exactCondition(entry, componentNameLower) ==
    LET titleLower == toLowerCase(prop(entry.value, K_title).str)
        titleWithoutCategory == titleWithoutCategoryOf(titleLower)
    IN  \/ titleLower = componentNameLower
        \/ titleWithoutCategory = componentNameLower
        \/ toLowerCase(entry.key) = componentNameLower

\* Fault: the second loop looks only at the title without its category.
partialConditionStrippedOnly(component, componentNameLower) ==
    LET titleLower == toLowerCase(prop(component, K_title).str)
        titleWithoutCategory == titleWithoutCategoryOf(titleLower)
    IN  includes(titleWithoutCategory, componentNameLower)

\* The condition of the second loop, on one component.
partialCondition(component, componentNameLower) ==
    LET titleLower == toLowerCase(prop(component, K_title).str)
        titleWithoutCategory == titleWithoutCategoryOf(titleLower)
    IN  \/ includes(titleLower, componentNameLower)
        \/ includes(titleWithoutCategory, componentNameLower)

\* The first loop from position i on: the position of the first entry that
\* meets the exact condition, 0 when the loop runs to its end.
RECURSIVE exactLoop(_, _, _)
exactLoop(entries, componentNameLower, i) ==
    IF i > Len(entries) THEN 0
    ELSE IF exactCondition(entries[i], componentNameLower) THEN i
    ELSE exactLoop(entries, componentNameLower, i + 1)

\* The second loop, likewise.
RECURSIVE partialLoop(_, _, _)
partialLoop(values, componentNameLower, i) ==
    IF i > Len(values) THEN 0
    ELSE IF partialCondition(values[i], componentNameLower) THEN i
    ELSE partialLoop(values, componentNameLower, i + 1)

\* Fault: one loop that accepts an entry on either condition.
RECURSIVE eitherLoop(_, _, _)
eitherLoop(entries, componentNameLower, i) ==
    IF i > Len(entries) THEN 0
    ELSE IF \/ exactCondition(entries[i], componentNameLower)
            \/ partialCondition(entries[i].value, componentNameLower)
         THEN i
    ELSE eitherLoop(entries, componentNameLower, i + 1)

findMatchingComponentOneLoop(storiesData, componentName) ==
    IF prop(storiesData, K_components).t = "undefined" THEN 0
    ELSE eitherLoop(ObjectEntries(prop(storiesData, K_components)),
                    toLowerCase(componentName), 1)

\* findMatchingComponent returns a reference to one of the values of
\* storiesData.components, or null.  The reference is the value's position
\* in iteration order (two values may be equal as data); 0 is null.
findMatchingComponent(storiesData, componentName) ==
    IF prop(storiesData, K_components).t = "undefined" THEN 0
    ELSE
        LET components         == prop(storiesData, K_components)
            componentNameLower == toLowerCase(componentName)
            exact   == exactLoop(ObjectEntries(components), componentNameLower, 1)
        IN  IF exact # 0 THEN exact
            ELSE partialLoop(ObjectValues(components), componentNameLower, 1)

(***************************************************************************)
(* Fetcher: fetchStoriesJson.                                              *)
(***************************************************************************)

\* Fault: the upper end of the successful range is off by one.
okUpTo300(status) ==
    status >= 200 /\ status <= 300

\* response.ok: the status is in the range 200-299.
ok(status) ==
    status >= 200 /\ status <= 299

\* new Error(`Could not fetch stories.json. Status: ${response.status}`)
newError(message) ==
    [isError |-> TRUE, message |-> message]

statusError(status) ==
    newError(FetchErrorPrefix \o numberToString(status))

(***************************************************************************)
(* Responder: the algtoolsUI handler.                                      *)
(***************************************************************************)

\* .slice(0, 20)
SliceEnd == 20

\* totalCount > 20
MoreThreshold == 20

\* Fault: the item is labelled "json".
textResultJson(text) ==
    [content |-> << [type |-> "json", text |-> text] >>]

\* { content: [{ type: "text", text }] }
textResult(text) ==
    [content |-> << [type |-> "text", text |-> text] >>]

\* Fault: the name is tested for being given, `componentName !== undefined`.
truthyDefined(value) ==
    value.t # "undefined"

\* if (componentName): a string is truthy when it is not empty.
truthy(value) ==
    value.t = "string" /\ value.str # << >>

\* Fault: the titles are joined without being cut to the first twenty.
componentNamesUnsliced(storiesData) ==
    LET values == ObjectValues(OrEmptyObject(prop(storiesData, K_components)))
        titles == [i \in 1..Len(values) |-> prop(values[i], K_title).str]
    IN  join(titles, CommaSpace)

\* Object.values(storiesData.components || {}).map((c) => c.title)
\*     .slice(0, 20).join(", ")
componentNamesOf(storiesData) ==
    LET values == ObjectValues(OrEmptyObject(prop(storiesData, K_components)))
        titles == [i \in 1..Len(values) |-> prop(values[i], K_title).str]
    IN  join(slice(titles, 0, SliceEnd), CommaSpace)

\* Object.keys(storiesData.components || {}).length
totalCountOf(storiesData) ==
    Len(ObjectKeys(OrEmptyObject(prop(storiesData, K_components))))

\* Fault: the suffix starts with the separator of the listing.
moreCountWithSeparator(totalCount) ==
    IF totalCount > MoreThreshold
    THEN CommaSpace \o MoreHead \o numberToString(totalCount) \o MoreTail
    ELSE << >>

\* totalCount > 20 ? `... (${totalCount} total)` : ""
moreCountOf(totalCount) ==
    IF totalCount > MoreThreshold
    THEN MoreHead \o numberToString(totalCount) \o MoreTail
    ELSE << >>

\* `Component "${componentName}" not found. Available components:
\*  ${componentNames}${moreCount}`
notFoundText(storiesData, componentName) ==
    NotFoundHead \o componentName \o NotFoundMid
        \o componentNamesOf(storiesData)
        \o moreCountOf(totalCountOf(storiesData))

\* Fault: hasProps tells whether the record has a props member at all.
summaryOfPropsPresent(component) ==
    JObject(<<
        Member(K_title, prop(component, K_title)),
        Member(K_storyCount, prop(component, K_storyCount)),
        Member(K_hasProps, JBoolean(prop(component, K_props).t # "undefined")),
        Member(K_componentPath, prop(component, K_componentPath)),
        Member(K_storybookUrl, prop(component, K_storybookUrl)) >>)

\* Fault: storyCount is counted from the record's stories.
summaryOfCountingStories(component) ==
    JObject(<<
        Member(K_title, prop(component, K_title)),
        Member(K_storyCount, JNumber(Len(prop(component, K_stories).items))),
        Member(K_hasProps,
               JBoolean(Len(ObjectKeys(OrEmptyObject(prop(component, K_props)))) > 0)),
        Member(K_componentPath, prop(component, K_componentPath)),
        Member(K_storybookUrl, prop(component, K_storybookUrl)) >>)

\* One element of componentsSummary.
summaryOf(component) ==
    JObject(<<
        Member(K_title, prop(component, K_title)),
        Member(K_storyCount, prop(component, K_storyCount)),
        Member(K_hasProps,
               JBoolean(Len(ObjectKeys(OrEmptyObject(prop(component, K_props)))) > 0)),
        Member(K_componentPath, prop(component, K_componentPath)),
        Member(K_storybookUrl, prop(component, K_storybookUrl)) >>)

\* Fault: the views come out in reverse order of the entries.
componentsSummaryOfReversed(storiesData) ==
    LET entries == ObjectEntries(OrEmptyObject(prop(storiesData, K_components)))
    IN  [i \in 1..Len(entries) |-> summaryOf(entries[Len(entries) + 1 - i].value)]

\* Object.entries(storiesData.components || {}).map(([_key, component]) => ...)
componentsSummaryOf(storiesData) ==
    LET entries == ObjectEntries(OrEmptyObject(prop(storiesData, K_components)))
    IN  [i \in 1..Len(entries) |-> summaryOf(entries[i].value)]

\* Fault: totalComponents counts the document's own keys.
summaryValueCountingKeys(storiesData) ==
    LET componentsSummary == componentsSummaryOf(storiesData)
    IN  JObject(<<
            Member(K_totalComponents, JNumber(Len(ObjectKeys(storiesData)))),
            Member(K_components, JArray(componentsSummary)),
            Member(K_note, JString(SummaryNote)) >>)

\* { totalComponents, components, note }
summaryValue(storiesData) ==
    LET componentsSummary == componentsSummaryOf(storiesData)
    IN  JObject(<<
            Member(K_totalComponents, JNumber(Len(componentsSummary))),
            Member(K_components, JArray(componentsSummary)),
            Member(K_note, JString(SummaryNote)) >>)

\* No exception.
NoError == [isError |-> FALSE, message |-> << >>]

\* error instanceof Error ? error.message : String(error)
errorDescription(error) ==
    IF error.isError THEN error.message ELSE error.str

\* The text of the catch block.
errorText(error) ==
    ErrorHead \o errorDescription(error) \o ErrorHint

\* Fault: the detail path serializes the listing view of the record.
respondDetailAsView(storiesData, componentName) ==
    IF truthy(componentName)
    THEN
        LET matchingComponent == findMatchingComponent(storiesData, componentName.str)
        IN  IF matchingComponent = 0
            THEN [ branch   |-> "notFound",
                   matching |-> 0,
                   error    |-> NoError,
                   steps    |-> << "lookup", "response" >>,
                   value    |-> JUndefined,
                   result   |-> textResult(notFoundText(storiesData, componentName.str)) ]
            ELSE [ branch   |-> "detail",
                   matching |-> matchingComponent,
                   error    |-> NoError,
                   steps    |-> << "lookup", "response" >>,
                   value    |-> summaryOf(ObjectValues(prop(storiesData, K_components))[matchingComponent]),
                   result   |-> textResult(stringify(summaryOf(
                       ObjectValues(prop(storiesData, K_components))[matchingComponent]))) ]
    ELSE [ branch   |-> "summary",
           matching |-> 0,
           error    |-> NoError,
           steps    |-> << "summarize", "response" >>,
           value    |-> summaryValue(storiesData),
           result   |-> textResult(stringify(summaryValue(storiesData))) ]

\* The try block after `await fetchStoriesJson()` has produced storiesData:
\* the returned value (result), with the branch that returned it, the
\* resolver's answer, the exception caught, the steps taken and the value
\* handed to JSON.stringify (value; JUndefined where the text is a message).
respond(storiesData, componentName) ==
    IF truthy(componentName)
    THEN
        LET matchingComponent == findMatchingComponent(storiesData, componentName.str)
        IN  IF matchingComponent = 0
            THEN [ branch   |-> "notFound",
                   matching |-> 0,
                   error    |-> NoError,
                   steps    |-> << "lookup", "response" >>,
                   value    |-> JUndefined,
                   result   |-> textResult(notFoundText(storiesData, componentName.str)) ]
            ELSE [ branch   |-> "detail",
                   matching |-> matchingComponent,
                   error    |-> NoError,
                   steps    |-> << "lookup", "response" >>,
                   value    |-> ObjectValues(prop(storiesData, K_components))[matchingComponent],
                   result   |-> textResult(stringify(
                       ObjectValues(prop(storiesData, K_components))[matchingComponent])) ]
    ELSE [ branch   |-> "summary",
           matching |-> 0,
           error    |-> NoError,
           steps    |-> << "summarize", "response" >>,
           value    |-> summaryValue(storiesData),
           result   |-> textResult(stringify(summaryValue(storiesData))) ]

\* The catch block.
caught(error) ==
    [ branch   |-> "error",
      matching |-> 0,
      error    |-> error,
      steps    |-> << "response" >>,
      value    |-> JUndefined,
      result   |-> textResult(errorText(error)) ]

(***************************************************************************)
(* Inputs: what the remote source may answer and what a caller may pass.   *)
(***************************************************************************)

\* Strings of the served documents and of the callers.
\* "ui-c"
KeyStem ==
    << "u", "i", "-", "c" >>

\* "Ui/C"
TitleStem ==
    << "U", "i", "/", "C" >>

\* "src/c"
PathStem ==
    << "s", "r", "c", "/", "c" >>

\* "variant"
PropVariant ==
    << "v", "a", "r", "i", "a", "n", "t" >>

\* "select"
ControlSelect ==
    << "s", "e", "l", "e", "c", "t" >>

\* "https://sb/c"
UrlStem ==
    << "h", "t", "t", "p", "s", ":", "/", "/", "s", "b", "/", "c" >>

\* "Network connection lost."
NetworkMessage ==
    << "N", "e", "t", "w", "o", "r", "k", " ", "c", "o", "n", "n", "e", "c", "t", "i",
       "o", "n", " ", "l", "o", "s", "t", "." >>

\* "Unexpected token < in JSON at position 0"
SyntaxMessage ==
    << "U", "n", "e", "x", "p", "e", "c", "t", "e", "d", " ", "t", "o", "k", "e", "n",
       " ", "<", " ", "i", "n", " ", "J", "S", "O", "N", " ", "a", "t", " ", "p", "o",
       "s", "i", "t", "i", "o", "n", " ", "0" >>

\* "internal error"
ResolveMessage ==
    << "i", "n", "t", "e", "r", "n", "a", "l", " ", "e", "r", "r", "o", "r" >>

\* "c1"
NameStripped ==
    << "c", "1" >>

\* "UI/C2"
NameTitle ==
    << "U", "I", "/", "C", "2" >>

\* "UI-C3"
NameKey ==
    << "U", "I", "-", "C", "3" >>

\* "c"
NamePartial ==
    << "c" >>

\* "xyz"
NameUnknown ==
    << "x", "y", "z" >>

\* "ODD"
NameSkewed ==
    << "O", "D", "D" >>

\* "odd"
KeySkewed ==
    << "o", "d", "d" >>

\* The message of the TypeError of Object.values(undefined).
TypeErrorMessage ==
    << "C", "a", "n", "n", "o", "t", " ", "c", "o", "n", "v", "e", "r", "t", " ", "u",
       "n", "d", "e", "f", "i", "n", "e", "d", " ", "o", "r", " ", "n", "u", "l", "l",
       " ", "t", "o", " ", "o", "b", "j", "e", "c", "t" >>

\* "C21"
NameLate ==
    << "C", "2", "1" >>

\* "i/c20"
NamePartialLate ==
    << "i", "/", "c", "2", "0" >>

\* Largest component mapping served in the handler specification.
MaxComponents == 22

\* Invocations of the tool per call slot.
MaxInvocations == 2

\* Entries of the mappings given to the resolver on its own.
MaxProbeLen == 2

\* A stories array with n example references.
storiesArray(n) ==
    JArray([j \in 1..n |->
        JObject(<< Member(K_id, JString(<< "s" >> \o numberToString(j))),
                   Member(K_name, JString(<< "S" >> \o numberToString(j))) >>)])

\* The i-th component of a served document, "Ui/C<i>" under key "ui-c<i>":
\* componentPath, props and the number of stories vary with i.
servedEntry(i) ==
    Member(KeyStem \o numberToString(i),
        JObject(
            << Member(K_title, JString(TitleStem \o numberToString(i))) >>
            \o (IF i % 2 = 1
                THEN << Member(K_componentPath, JString(PathStem \o numberToString(i))) >>
                ELSE << >>)
            \o (CASE i % 3 = 0 -> << >>
                  [] i % 3 = 1 -> << Member(K_props, JObject(<< >>)) >>
                  [] i % 3 = 2 -> << Member(K_props, JObject(<<
                         Member(PropVariant, JObject(<<
                             Member(K_control, JString(ControlSelect)) >>)) >>)) >>)
            \o << Member(K_storyCount, JNumber(i % 3)),
                  Member(K_stories, storiesArray(i % 3)),
                  Member(K_storybookUrl, JString(UrlStem \o numberToString(i))) >>))

\* A document with n components.
servedDocument(n) ==
    JObject(<< Member(K_components, JObject([i \in 1..n |-> servedEntry(i)])) >>)

\* A component as a remote document may also hold it: the title is the
\* empty string and storyCount is not the number of stories.
skewedEntry ==
    Member(KeySkewed,
        JObject(<< Member(K_title, JString(<< >>)),
                   Member(K_storyCount, JNumber(3)),
                   Member(K_stories, storiesArray(1)),
                   Member(K_storybookUrl, JString(UrlStem)) >>))

skewedDocument ==
    JObject(<< Member(K_components, JObject(<< servedEntry(1), skewedEntry >>)) >>)

\* A document without the components view.
bareDocument ==
    JObject(<< >>)

\* A Response: its status and what reading its body as JSON gives.
Response(status, kind, value, error) ==
    [status |-> status, body |-> [kind |-> kind, value |-> value, error |-> error]]

NoResponse == Response(0, "none", JUndefined, NoError)

\* Rejections of fetch() and of response.json().
NetworkError == newError(NetworkMessage)

SyntaxError == newError(SyntaxMessage)

\* Statuses around the bounds of response.ok.
ServedStatuses == {199, 200, 299, 300, 404, 500}

ServedResponses ==
    { Response(s, "json", servedDocument(n), NoError) :
          s \in ServedStatuses, n \in 0..MaxComponents }
    \cup { Response(s, "json", bareDocument, NoError) : s \in ServedStatuses }
    \cup { Response(s, "json", skewedDocument, NoError) : s \in ServedStatuses }
    \cup { Response(s, "malformed", JUndefined, SyntaxError) : s \in ServedStatuses }
    \cup { Response(s, "aborted", JUndefined, NetworkError) : s \in ServedStatuses }

FetchRejections == { NetworkError, newError(ResolveMessage) }

\* componentName arguments: absent, empty, and names that hit a served
\* component by title, stripped title, key, substring, or not at all.
NameArguments ==
    { JUndefined, JString(<< >>) }
    \cup { JString(s) : s \in
             { NameStripped, NameTitle, NameKey, NamePartial, NameUnknown, NameLate,
               NamePartialLate, NameSkewed } }

(***************************************************************************)
(* Inputs of the resolver on its own: short titles, keys and names over    *)
(* the characters A, a, b, k, x and the separator.                         *)
(***************************************************************************)

ProbeTitles ==
    { << "A", "/", "b" >>, << "a", "b" >>, << "B" >>, << "a", "/" >>,
      << "b", "/", "A" >>, << "A", "/", "a", "b" >> }

ProbeKeys ==
    { << "k" >>, << "B" >>, << "a", "b" >>, << "x", "/", "a" >> }

ProbeNames ==
    { << >>, << "b" >>, << "B" >>, << "A", "B" >>, << "a" >>, << "/", "b" >>,
      << "A", "/", "B" >>, << "K" >>, << "x" >>, << "b", "b" >> }

ProbeEntries ==
    { Member(k, JObject(<< Member(K_title, JString(t)) >>)) :
          k \in ProbeKeys, t \in ProbeTitles }

\* Mappings of at most MaxProbeLen entries with distinct keys.
ProbeMappings ==
    UNION { { m \in [1..n -> ProbeEntries] :
                \A i, j \in 1..n : i # j => m[i].key # m[j].key } :
            n \in 0..MaxProbeLen }

ProbeDocuments ==
    { bareDocument }
    \cup { JObject(<< Member(K_components, JObject(m)) >>) : m \in ProbeMappings }

(***************************************************************************)
(* State.                                                                  *)
(***************************************************************************)

VARIABLES
    pc,             \* per call: "idle", "awaitFetch", "awaitJson", "done"
    componentName,  \* per call: the argument of the running invocation
    response,       \* per call: the Response fetch() resolved with
    storiesData,    \* per call: the handler's local storiesData
    outcome,        \* per call: the returned value, the branch that returned it
    events,         \* per call: the steps of the running invocation, in order
    started,        \* per call: invocations begun
    requests,       \* outbound requests issued, in order
    probe,          \* the resolver applied on its own: input and answer
    worker,         \* one request to the worker's fetch handler
    rules,          \* one call of the cursorRules tool
    openapi,        \* one run of generateOpenAPISpec
    details         \* one run of getComponentDetails

\* What the specification of the algtoolsUI tool leaves alone.
sideVars ==
    << worker, rules, openapi, details >>

vars ==
    << pc, componentName, response, storiesData, outcome, events, started,
       requests, probe, sideVars >>

\* Not running.
Idle ==
    [pc |-> "idle"]

SideIdle ==
    /\ worker = Idle
    /\ rules = Idle
    /\ openapi = Idle
    /\ details = Idle

callVars ==
    << pc, componentName, response, storiesData, outcome, events, started, requests >>

NoOutcome ==
    [ branch |-> "none", matching |-> 0, error |-> NoError, steps |-> << >>,
      value |-> JUndefined, result |-> [content |-> << >>] ]

ProbeIdle ==
    [ phase |-> "idle", storiesData |-> bareDocument, componentName |-> << >>,
      found |-> 0 ]

InitCalls(calls) ==
    /\ pc = [c \in calls |-> "idle"]
    /\ componentName = [c \in calls |-> JUndefined]
    /\ response = [c \in calls |-> NoResponse]
    /\ storiesData = [c \in calls |-> JUndefined]
    /\ outcome = [c \in calls |-> NoOutcome]
    /\ events = [c \in calls |-> << >>]
    /\ started = [c \in calls |-> 0]
    /\ requests = << >>

Init ==
    /\ InitCalls({ "c1" })
    /\ probe = ProbeIdle
    /\ SideIdle

(***************************************************************************)
(* The handler, one action per run between two suspension points.          *)
(***************************************************************************)

\* The tool is called: the handler enters its try block and
\* fetchStoriesJson issues fetch(STORIES_URL), then suspends.
Invoke(c, names) ==
    /\ pc[c] \in { "idle", "done" }
    /\ started[c] < MaxInvocations
    /\ \E name \in names :
           componentName' = [componentName EXCEPT ![c] = name]
    /\ pc' = [pc EXCEPT ![c] = "awaitFetch"]
    /\ started' = [started EXCEPT ![c] = @ + 1]
    /\ requests' = Append(requests,
           [call |-> c, invocation |-> started[c] + 1,
            method |-> "GET", url |-> STORIES_URL])
    /\ response' = [response EXCEPT ![c] = NoResponse]
    /\ storiesData' = [storiesData EXCEPT ![c] = JUndefined]
    /\ outcome' = [outcome EXCEPT ![c] = NoOutcome]
    /\ events' = [events EXCEPT ![c] = << "fetchStart" >>]
    /\ UNCHANGED << probe, sideVars >>

\* Fault: a rejected fetch() is tried once more.
FetchRejectRetry(c, rejections) ==
    /\ pc[c] = "awaitFetch"
    /\ Cardinality({ i \in DOMAIN requests :
           requests[i].call = c /\ requests[i].invocation = started[c] }) < 2
    /\ requests' = Append(requests,
           [call |-> c, invocation |-> started[c],
            method |-> "GET", url |-> STORIES_URL])
    /\ UNCHANGED << pc, componentName, response, storiesData, outcome, events,
                    started, probe, sideVars >>

\* fetch() rejects: the rejection passes through fetchStoriesJson into the
\* handler's catch block.
FetchReject(c, rejections) ==
    /\ pc[c] = "awaitFetch"
    /\ \E error \in rejections :
           /\ outcome' = [outcome EXCEPT ![c] = caught(error)]
           /\ events' = [events EXCEPT ![c] = @ \o caught(error).steps]
    /\ pc' = [pc EXCEPT ![c] = "done"]
    /\ UNCHANGED << componentName, response, storiesData, started, requests, probe, sideVars >>

\* Fault: response.json() is not awaited, the handler goes on with the
\* pending promise, which has no components.
FetchResolveUnawaited(c, responses) ==
    /\ pc[c] = "awaitFetch"
    /\ \E r \in responses :
           /\ response' = [response EXCEPT ![c] = r]
           /\ IF ~ok(r.status)
              THEN /\ outcome' = [outcome EXCEPT ![c] = caught(statusError(r.status))]
                   /\ events' = [events EXCEPT ![c] =
                                     @ \o caught(statusError(r.status)).steps]
                   /\ storiesData' = storiesData
              ELSE /\ outcome' = [outcome EXCEPT ![c] =
                                      respond(bareDocument, componentName[c])]
                   /\ events' = [events EXCEPT ![c] =
                                     @ \o respond(bareDocument, componentName[c]).steps]
                   /\ storiesData' = [storiesData EXCEPT ![c] = bareDocument]
    /\ pc' = [pc EXCEPT ![c] = "done"]
    /\ UNCHANGED << componentName, started, requests, probe, sideVars >>

\* Fault: the Response is kept in one variable that all calls read.
FetchResolveShared(c, responses) ==
    /\ pc[c] = "awaitFetch"
    /\ \E r \in responses :
           /\ response' = [d \in DOMAIN pc |-> r]
           /\ IF ~ok(r.status)
              THEN /\ outcome' = [outcome EXCEPT ![c] = caught(statusError(r.status))]
                   /\ events' = [events EXCEPT ![c] =
                                     @ \o caught(statusError(r.status)).steps]
                   /\ pc' = [pc EXCEPT ![c] = "done"]
              ELSE /\ pc' = [pc EXCEPT ![c] = "awaitJson"]
                   /\ UNCHANGED << outcome, events >>
    /\ UNCHANGED << componentName, storiesData, started, requests, probe, sideVars >>

\* fetch() resolves with a Response: on a status that is not ok
\* fetchStoriesJson throws and the handler's catch block returns; otherwise
\* it calls response.json() and suspends again.
FetchResolve(c, responses) ==
    /\ pc[c] = "awaitFetch"
    /\ \E r \in responses :
           /\ response' = [response EXCEPT ![c] = r]
           /\ IF ~ok(r.status)
              THEN /\ outcome' = [outcome EXCEPT ![c] = caught(statusError(r.status))]
                   /\ events' = [events EXCEPT ![c] =
                                     @ \o caught(statusError(r.status)).steps]
                   /\ pc' = [pc EXCEPT ![c] = "done"]
              ELSE /\ pc' = [pc EXCEPT ![c] = "awaitJson"]
                   /\ UNCHANGED << outcome, events >>
    /\ UNCHANGED << componentName, storiesData, started, requests, probe, sideVars >>

\* Fault: a body that does not parse is taken for an empty document.
JsonRejectAsEmpty(c) ==
    /\ pc[c] = "awaitJson"
    /\ response[c].body.kind # "json"
    /\ storiesData' = [storiesData EXCEPT ![c] = bareDocument]
    /\ outcome' = [outcome EXCEPT ![c] = respond(bareDocument, componentName[c])]
    /\ events' = [events EXCEPT ![c] =
                      @ \o << "fetchComplete" >>
                        \o respond(bareDocument, componentName[c]).steps]
    /\ pc' = [pc EXCEPT ![c] = "done"]
    /\ UNCHANGED << componentName, response, started, requests, probe, sideVars >>

\* Fault: a body that does not parse makes the handler fetch again.
JsonRejectRefetch(c) ==
    /\ pc[c] = "awaitJson"
    /\ response[c].body.kind # "json"
    /\ Cardinality({ i \in DOMAIN requests :
           requests[i].call = c /\ requests[i].invocation = started[c] }) < 2
    /\ requests' = Append(requests,
           [call |-> c, invocation |-> started[c],
            method |-> "GET", url |-> STORIES_URL])
    /\ response' = [response EXCEPT ![c] = NoResponse]
    /\ events' = [events EXCEPT ![c] = @ \o << "fetchStart" >>]
    /\ pc' = [pc EXCEPT ![c] = "awaitFetch"]
    /\ UNCHANGED << componentName, storiesData, outcome, started, probe, sideVars >>

\* response.json() rejects (the body is not JSON, or its transfer broke
\* off): the catch block returns.
JsonReject(c) ==
    /\ pc[c] = "awaitJson"
    /\ response[c].body.kind # "json"
    /\ outcome' = [outcome EXCEPT ![c] = caught(response[c].body.error)]
    /\ events' = [events EXCEPT ![c] = @ \o caught(response[c].body.error).steps]
    /\ pc' = [pc EXCEPT ![c] = "done"]
    /\ UNCHANGED << componentName, response, storiesData, started, requests, probe, sideVars >>

\* Fault: the handler answers from the document another call left behind,
\* when there is one, and keeps its own for the next.
JsonResolveStale(c) ==
    LET held == { d \in DOMAIN pc \ {c} : storiesData[d].t # "undefined" }
        used == IF held # { }
                THEN storiesData[CHOOSE d \in held : TRUE]
                ELSE response[c].body.value
    IN  /\ pc[c] = "awaitJson"
        /\ response[c].body.kind = "json"
        /\ storiesData' = [storiesData EXCEPT ![c] = response[c].body.value]
        /\ outcome' = [outcome EXCEPT ![c] = respond(used, componentName[c])]
        /\ events' = [events EXCEPT ![c] =
                          @ \o << "fetchComplete" >>
                            \o respond(used, componentName[c]).steps]
        /\ pc' = [pc EXCEPT ![c] = "done"]
        /\ UNCHANGED << componentName, response, started, requests, probe, sideVars >>

\* Fault: the handler reads storiesData.components without `|| {}`, so a
\* document without it makes Object.values throw into the catch block.
JsonResolveUnguarded(c) ==
    LET document == response[c].body.value
        answer == IF prop(document, K_components).t = "undefined"
                  THEN caught(newError(TypeErrorMessage))
                  ELSE respond(document, componentName[c])
    IN  /\ pc[c] = "awaitJson"
        /\ response[c].body.kind = "json"
        /\ storiesData' = [storiesData EXCEPT ![c] = document]
        /\ outcome' = [outcome EXCEPT ![c] = answer]
        /\ events' = [events EXCEPT ![c] = @ \o << "fetchComplete" >> \o answer.steps]
        /\ pc' = [pc EXCEPT ![c] = "done"]
        /\ UNCHANGED << componentName, response, started, requests, probe, sideVars >>

\* response.json() resolves: fetchStoriesJson returns the document and the
\* handler runs to its return statement.
JsonResolve(c) ==
    /\ pc[c] = "awaitJson"
    /\ response[c].body.kind = "json"
    /\ storiesData' = [storiesData EXCEPT ![c] = response[c].body.value]
    /\ outcome' = [outcome EXCEPT ![c] =
                       respond(response[c].body.value, componentName[c])]
    /\ events' = [events EXCEPT ![c] =
                      @ \o << "fetchComplete" >>
                        \o respond(response[c].body.value, componentName[c]).steps]
    /\ pc' = [pc EXCEPT ![c] = "done"]
    /\ UNCHANGED << componentName, response, started, requests, probe, sideVars >>

Next ==
    \/ \E c \in DOMAIN pc : Invoke(c, NameArguments)
    \/ \E c \in DOMAIN pc : FetchReject(c, FetchRejections)
    \/ \E c \in DOMAIN pc : FetchResolve(c, ServedResponses)
    \/ \E c \in DOMAIN pc : JsonReject(c)
    \/ \E c \in DOMAIN pc : JsonResolve(c)

Spec == Init /\ [][Next]_vars

(***************************************************************************)
(* The handler when every promise it awaits settles: a pending fetch()     *)
(* resolves or rejects, and so does a pending response.json(). What the    *)
(* handler does between and after the two is its own code, run to the      *)
(* return statement within the step that settles the promise. Documents    *)
(* are kept short here.                                                    *)
(***************************************************************************)

SettlingNames ==
    { JUndefined, JString(<< >>), JString(NameStripped), JString(NamePartial),
      JString(NameUnknown) }

SettlingResponses ==
    { Response(s, "json", servedDocument(n), NoError) :
          s \in { 200, 404 }, n \in 0..3 }
    \cup { Response(200, "json", bareDocument, NoError),
           Response(200, "malformed", JUndefined, SyntaxError),
           Response(200, "aborted", JUndefined, NetworkError) }

FetchSettles(c) ==
    FetchReject(c, FetchRejections) \/ FetchResolve(c, SettlingResponses)

NextSettling ==
    \/ \E c \in DOMAIN pc : Invoke(c, SettlingNames)
    \/ \E c \in DOMAIN pc : FetchReject(c, FetchRejections)
    \/ \E c \in DOMAIN pc : FetchResolve(c, SettlingResponses)
    \/ \E c \in DOMAIN pc : JsonReject(c)
    \/ \E c \in DOMAIN pc : JsonResolve(c)

\* The step that resumes call c when response.json() resolves is enabled
\* exactly in these states, and taking it leaves them.
BodyResolvable(c) ==
    pc[c] = "awaitJson" /\ response[c].body.kind = "json"

\* Weak fairness of the three settlements. That of JsonResolve is written
\* out (an enabled step is not put off forever: its guard is false again
\* and again), which spares evaluating the whole serialization to decide
\* whether the step is enabled.
SpecSettling ==
    /\ Init
    /\ [][NextSettling]_vars
    /\ WF_vars(FetchSettles("c1"))
    /\ WF_vars(JsonReject("c1"))
    /\ []<>~BodyResolvable("c1")

(***************************************************************************)
(* Two calls of the tool in flight at once: each is its own invocation of  *)
(* the async handler, suspended where it awaits; the runtime resumes them  *)
(* in any order.                                                           *)
(***************************************************************************)

ConcurrentCalls == { "c1", "c2" }

ConcurrentNames ==
    { JUndefined, JString(NameStripped), JString(NameUnknown) }

ConcurrentResponses ==
    { Response(200, "json", servedDocument(n), NoError) : n \in 1..2 }
    \cup { Response(200, "malformed", JUndefined, SyntaxError),
           Response(404, "json", servedDocument(1), NoError) }

ConcurrentRejections == { NetworkError }

InitConcurrent ==
    /\ InitCalls(ConcurrentCalls)
    /\ probe = ProbeIdle
    /\ SideIdle

NextConcurrent ==
    \/ \E c \in DOMAIN pc : Invoke(c, ConcurrentNames)
    \/ \E c \in DOMAIN pc : FetchReject(c, ConcurrentRejections)
    \/ \E c \in DOMAIN pc : FetchResolve(c, ConcurrentResponses)
    \/ \E c \in DOMAIN pc : JsonReject(c)
    \/ \E c \in DOMAIN pc : JsonResolve(c)

SpecConcurrent == InitConcurrent /\ [][NextConcurrent]_vars

(***************************************************************************)
(* The resolver on its own: findMatchingComponent applied to every short   *)
(* document and name.                                                      *)
(***************************************************************************)

InitResolver ==
    /\ InitCalls({ "c1" })
    /\ probe \in { [ phase |-> "input", storiesData |-> d, componentName |-> n,
                     found |-> 0 ] : d \in ProbeDocuments, n \in ProbeNames }
    /\ SideIdle

ApplyResolver ==
    /\ probe.phase = "input"
    /\ probe' = [probe EXCEPT
           !.phase = "output",
           !.found = findMatchingComponent(probe.storiesData, probe.componentName)]
    /\ UNCHANGED << callVars, sideVars >>

NextResolver ==
    ApplyResolver

SpecResolver == InitResolver /\ [][NextResolver]_vars

(***************************************************************************)
(* The resolver applied twice: to a document and name, and to the same     *)
(* document and name respelled in upper or lower case.                     *)
(***************************************************************************)

CaseModes == { "upper", "lower" }

UpperChar(ch) ==
    IF \E i \in DOMAIN LowerChars : LowerChars[i] = ch
    THEN UpperChars[CHOOSE i \in DOMAIN LowerChars : LowerChars[i] = ch]
    ELSE ch

\* s with every letter in the given case.
Recased(s, mode) ==
    [i \in 1..Len(s) |-> IF mode = "upper" THEN UpperChar(s[i]) ELSE LowerChar(s[i])]

\* The document with the keys and titles of its components recased.
RecasedDocument(doc, mode) ==
    IF prop(doc, K_components).t = "undefined" THEN doc
    ELSE JObject(<< Member(K_components, JObject(
             [i \in DOMAIN prop(doc, K_components).members |->
                 LET entry == prop(doc, K_components).members[i]
                 IN  Member(Recased(entry.key, mode),
                         JObject(<< Member(K_title,
                             JString(Recased(prop(entry.value, K_title).str, mode))) >>))])) >>)

InitRecased ==
    /\ InitCalls({ "c1" })
    /\ probe \in { [ phase |-> "input", storiesData |-> d, componentName |-> n,
                     found |-> 0,
                     recasedData |-> RecasedDocument(d, dm),
                     recasedName |-> Recased(n, nm),
                     recasedFound |-> 0 ] :
                   d \in ProbeDocuments, n \in ProbeNames,
                   dm \in CaseModes, nm \in CaseModes }
    /\ SideIdle

ApplyRecased ==
    /\ probe.phase = "input"
    /\ probe' = [probe EXCEPT
           !.phase = "output",
           !.found = findMatchingComponent(probe.storiesData, probe.componentName),
           !.recasedFound = findMatchingComponent(probe.recasedData, probe.recasedName)]
    /\ UNCHANGED << callVars, sideVars >>

NextRecased ==
    ApplyRecased

SpecRecased == InitRecased /\ [][NextRecased]_vars

(***************************************************************************)
(* Properties of the resolver (specification SpecResolver).  Matching is   *)
(* restated here from the words "equals", "last segment" and "contains",   *)
(* not from the loops.                                                     *)
(***************************************************************************)

\* The entries of the probed document's component mapping.
ProbedEntries ==
    IF prop(probe.storiesData, K_components).t = "undefined" THEN << >>
    ELSE prop(probe.storiesData, K_components).members

\* The part of t after its last "/" (all of t when it has none).
LastSegment(t) ==
    LET cuts == { i \in DOMAIN t : t[i] = "/" }
        last == IF cuts = { } THEN 0 ELSE CHOOSE i \in cuts : \A j \in cuts : j <= i
    IN  SubSeq(t, last + 1, Len(t))

\* n occurs in t as a contiguous run of characters.
IsSubstring(n, t) ==
    \E i \in 0..Len(t) : \E j \in i..Len(t) : SubSeq(t, i + 1, j) = n

\* The entry is identified by the name: its title, the last segment of its
\* title or its key equals the name, letter case aside.
EqualsIdentity(entry, name) ==
    LET n == toLowerCase(name)
        t == toLowerCase(prop(entry.value, K_title).str)
    IN  t = n \/ LastSegment(t) = n \/ toLowerCase(entry.key) = n

\* The entry's title or its last segment contains the name, letter case aside.
ContainsName(entry, name) ==
    LET n == toLowerCase(name)
        t == toLowerCase(prop(entry.value, K_title).str)
    IN  IsSubstring(n, t) \/ IsSubstring(n, LastSegment(t))

ExactPositions ==
    { i \in DOMAIN ProbedEntries : EqualsIdentity(ProbedEntries[i], probe.componentName) }

PartialPositions ==
    { i \in DOMAIN ProbedEntries : ContainsName(ProbedEntries[i], probe.componentName) }

Least(S) ==
    CHOOSE i \in S : \A j \in S : i <= j

\* C1: when the name equals some entry's title, last title segment or key
\* (letter case aside), the resolver returns the first such entry in
\* iteration order.
C1_ExactFirst ==
    (probe.phase = "output" /\ ExactPositions # { })
        => probe.found = Least(ExactPositions)

\* Several entries qualify, the second by its key alone, and the first is
\* returned.
C1_Witness ==
    /\ probe.phase = "output"
    /\ Cardinality(ExactPositions) >= 2
    /\ probe.found = Least(ExactPositions)
    /\ \E i \in ExactPositions :
           /\ i # probe.found
           /\ toLowerCase(prop(ProbedEntries[i].value, K_title).str)
                  # toLowerCase(probe.componentName)

\* C2: whenever some entry matches the name exactly, the resolver does not
\* return an entry that matches the name only as a substring.
C2_ExactBeatsPartial ==
    (probe.phase = "output" /\ ExactPositions # { })
        => probe.found \notin (PartialPositions \ ExactPositions)

\* A substring-only entry comes before the exact one, and the exact one is
\* returned.
C2_Witness ==
    /\ probe.phase = "output"
    /\ probe.found \in ExactPositions
    /\ \E i \in PartialPositions \ ExactPositions : i < probe.found

\* C3: when no entry matches exactly and some entry's title or last title
\* segment contains the name, the resolver returns the first such entry in
\* iteration order.
C3_PartialFirst ==
    (probe.phase = "output" /\ ExactPositions = { } /\ PartialPositions # { })
        => probe.found = Least(PartialPositions)

\* Two entries contain the name, none equals it, and the first is returned.
C3_Witness ==
    /\ probe.phase = "output"
    /\ ExactPositions = { }
    /\ Cardinality(PartialPositions) >= 2
    /\ probe.componentName # << >>
    /\ probe.found = Least(PartialPositions)

(***************************************************************************)
(* Properties of the handler (specification Spec).                         *)
(***************************************************************************)

\* p is the beginning / the end of text; p occurs in text.
StartsWith(text, p) ==
    Len(text) >= Len(p) /\ \A i \in DOMAIN p : text[i] = p[i]

EndsWith(text, p) ==
    Len(text) >= Len(p) /\ \A i \in DOMAIN p : text[Len(text) - Len(p) + i] = p[i]

Occurs(p, text) ==
    \E off \in 0..(Len(text) - Len(p)) : \A i \in DOMAIN p : text[off + i] = p[i]

\* The invocation of call c has returned.
Returned(c) ==
    pc[c] = "done"

\* The returned value is one text item; its text.
IsTextItem(c) ==
    /\ Len(outcome[c].result.content) = 1
    /\ outcome[c].result.content[1].type = "text"

TextOf(c) ==
    outcome[c].result.content[1].text

\* The fetch of call c delivered a parsed document.
Delivered(c) ==
    /\ response[c].status >= 200
    /\ response[c].status < 300
    /\ response[c].body.kind = "json"

\* The entries of the component mapping of the delivered document (none
\* when it has no such mapping) and their titles.
DeliveredEntries(c) ==
    LET doc == response[c].body.value
    IN  IF \E i \in DOMAIN doc.members : doc.members[i].key = K_components
        THEN prop(doc, K_components).members
        ELSE << >>

DeliveredTitles(c) ==
    [i \in DOMAIN DeliveredEntries(c) |-> prop(DeliveredEntries(c)[i].value, K_title).str]

\* The name of call c is a non-empty string that no delivered entry equals
\* or contains.
NameGiven(c) ==
    componentName[c].t = "string" /\ componentName[c].str # << >>

Unmatched(c) ==
    /\ NameGiven(c)
    /\ \A i \in DOMAIN DeliveredEntries(c) :
           /\ ~EqualsIdentity(DeliveredEntries(c)[i], componentName[c].str)
           /\ ~ContainsName(DeliveredEntries(c)[i], componentName[c].str)

\* The first k titles, each but the first preceded by sep.
RECURSIVE Listing(_, _, _)
Listing(titles, k, sep) ==
    IF k = 0 THEN << >>
    ELSE IF k = 1 THEN titles[1]
    ELSE Listing(titles, k - 1, sep) \o sep \o titles[k]

Smaller(a, b) ==
    IF a < b THEN a ELSE b

\* The preview shows at most this many titles.
PreviewCap == 20

\* The words of the not-found message, as the specification gives them.
SaidComponent ==
    << "C", "o", "m", "p", "o", "n", "e", "n", "t", " ", "\"" >>

SaidNotFound ==
    << "\"", " ", "n", "o", "t", " ", "f", "o", "u", "n", "d", ".", " ", "A", "v", "a",
       "i", "l", "a", "b", "l", "e", " ", "c", "o", "m", "p", "o", "n", "e", "n", "t",
       "s", ":", " " >>

SaidSeparator ==
    << ",", " " >>

SaidEllipsis ==
    << ".", ".", ".", " ", "(" >>

SaidTotal ==
    << " ", "t", "o", "t", "a", "l", ")" >>

\* The not-found message up to the listing.
SaidOpening(c) ==
    SaidComponent \o componentName[c].str \o SaidNotFound

\* C4: when the name matches no entry in either phase, the answer lists the
\* first min(20, T) titles in iteration order and never more; when T > 20
\* the listing is followed by "... (T total)", and when T <= 20 nothing
\* follows it.
C4_NotFoundPreview ==
    \A c \in DOMAIN pc :
        (Returned(c) /\ Delivered(c) /\ Unmatched(c)) =>
            LET T       == Len(DeliveredTitles(c))
                listing == Listing(DeliveredTitles(c), Smaller(PreviewCap, T), SaidSeparator)
            IN  /\ outcome[c].branch = "notFound"
                /\ IsTextItem(c)
                /\ TextOf(c) = SaidOpening(c) \o listing
                       \o (IF T > PreviewCap
                           THEN SaidEllipsis \o numberToString(T) \o SaidTotal
                           ELSE << >>)
                /\ \A i \in DOMAIN DeliveredTitles(c) :
                       i > PreviewCap =>
                           ~Occurs(SaidSeparator \o DeliveredTitles(c)[i], TextOf(c))

\* A not-found answer over more than 20 components: the later titles are
\* left out.
C4_Witness ==
    \E c \in DOMAIN pc :
        /\ Returned(c) /\ Delivered(c) /\ Unmatched(c)
        /\ outcome[c].branch = "notFound"
        /\ Len(DeliveredTitles(c)) > PreviewCap

\* C5 as stated: the total suffix is ", ... (N total)", set off from the
\* 20th title by a comma and a space.
C5_AsStated ==
    \A c \in DOMAIN pc :
        (Returned(c) /\ outcome[c].branch = "notFound") =>
            LET N == Len(DeliveredTitles(c))
            IN  TextOf(c) = SaidOpening(c)
                    \o Listing(DeliveredTitles(c), Smaller(PreviewCap, N), SaidSeparator)
                    \o (IF N > PreviewCap
                        THEN SaidSeparator \o SaidEllipsis \o numberToString(N) \o SaidTotal
                        ELSE << >>)

\* C5, amended: the text begins with `Component "<name>" not found.
\* Available components: `, consecutive listed titles are joined by ", ",
\* and the text ends with the last listed title, directly followed, if and
\* only if N > 20, by "... (N total)" with nothing in between.
C5_NotFoundText ==
    \A c \in DOMAIN pc :
        (Returned(c) /\ outcome[c].branch = "notFound") =>
            LET titles == DeliveredTitles(c)
                N      == Len(titles)
                shown  == Smaller(PreviewCap, N)
                suffix == IF N > PreviewCap
                          THEN SaidEllipsis \o numberToString(N) \o SaidTotal
                          ELSE << >>
            IN  /\ StartsWith(TextOf(c), SaidOpening(c))
                /\ \A i \in 1..(shown - 1) :
                       Occurs(titles[i] \o SaidSeparator \o titles[i + 1], TextOf(c))
                /\ EndsWith(TextOf(c),
                       (IF shown = 0 THEN SaidNotFound ELSE titles[shown]) \o suffix)
                /\ ~Occurs(SaidSeparator \o SaidEllipsis, TextOf(c))
                /\ Len(TextOf(c)) = Len(SaidOpening(c)) + Len(suffix)
                       + Len(Listing(titles, shown, << >>))
                       + (IF shown = 0 THEN 0 ELSE Len(SaidSeparator) * (shown - 1))

\* A not-found answer over more than 20 components, ending in the suffix.
C5_Witness ==
    \E c \in DOMAIN pc :
        /\ Returned(c) /\ outcome[c].branch = "notFound"
        /\ Len(DeliveredTitles(c)) > PreviewCap
        /\ EndsWith(TextOf(c), SaidTotal)

\* The steps of call c so far hold a lookup or a summarize step.
Searched(c) ==
    \E i \in DOMAIN events[c] : events[c][i] \in { "lookup", "summarize" }

\* C6: when the request returns a status S outside 200-299, the handler
\* returns (it does not throw) one text item whose text contains S, and
\* neither the resolver nor the summarizer has run.
C6_NonSuccessStatus ==
    \A c \in DOMAIN pc :
        (Returned(c) /\ response[c] # NoResponse
            /\ (response[c].status < 200 \/ response[c].status > 299)) =>
            /\ outcome[c].branch = "error"
            /\ IsTextItem(c)
            /\ Occurs(numberToString(response[c].status), TextOf(c))
            /\ ~Searched(c)
            /\ outcome[c].matching = 0
            /\ storiesData[c] = JUndefined

\* Status 300, just above the successful range, with a well-formed body.
C6_Witness ==
    \E c \in DOMAIN pc :
        /\ Returned(c)
        /\ response[c].status = 300
        /\ response[c].body.kind = "json"
        /\ outcome[c].branch = "error"

\* The request of call c failed in transport or its body did not parse.
FetchBroken(c) ==
    \/ response[c] = NoResponse
    \/ /\ response[c].status >= 200
       /\ response[c].status <= 299
       /\ response[c].body.kind # "json"

\* The words the specification gives for the error message.
SaidFailed ==
    << "F", "a", "i", "l", "e", "d", " ", "t", "o", " ", "f", "e", "t", "c", "h" >>

SaidAccessibleAt ==
    << "a", "c", "c", "e", "s", "s", "i", "b", "l", "e", " ", "a", "t", " ",
       "h", "t", "t", "p", "s", ":", "/", "/", "a", "l", "g", "t", "o", "o", "l", "s",
       ".", "g", "i", "t", "h", "u", "b", ".", "i", "o", "/", "u", "i", "/",
       "s", "t", "o", "r", "i", "e", "s", ".", "j", "s", "o", "n" >>

\* C7: when the transport throws or the body is not parseable JSON, the
\* invocation returns one error text that embeds the failure's description
\* and the hint where the source should be reachable; no document, whole or
\* partial, is searched or summarized.
C7_AllOrNothing ==
    \A c \in DOMAIN pc :
        (Returned(c) /\ FetchBroken(c)) =>
            /\ outcome[c].branch = "error"
            /\ IsTextItem(c)
            /\ outcome[c].error.isError
            /\ (response[c] = NoResponse) => (outcome[c].error \in FetchRejections)
            /\ (response[c] # NoResponse) => (outcome[c].error = response[c].body.error)
            /\ Occurs(SaidFailed, TextOf(c))
            /\ Occurs(outcome[c].error.message, TextOf(c))
            /\ EndsWith(TextOf(c), SaidAccessibleAt)
            /\ ~Searched(c)
            /\ storiesData[c] = JUndefined

\* The transfer of a successful response's body broke off.
C7_Witness ==
    \E c \in DOMAIN pc :
        /\ Returned(c)
        /\ response[c].status = 200
        /\ response[c].body.kind = "aborted"
        /\ outcome[c].branch = "error"

\* The requests issued for invocation k of call c.
RequestsOf(c, k) ==
    { i \in DOMAIN requests : requests[i].call = c /\ requests[i].invocation = k }

\* C8: every invocation, whatever its path, issues exactly one request, a
\* GET to the stories.json URL: none is retried, and a later invocation
\* issues its own.
C8_OneRequestPerInvocation ==
    /\ \A i \in DOMAIN requests :
           /\ requests[i].method = "GET"
           /\ requests[i].url = "https://algtools.github.io/ui/stories.json"
           /\ requests[i].call \in DOMAIN pc
           /\ requests[i].invocation \in 1..started[requests[i].call]
    /\ \A c \in DOMAIN pc :
           \A k \in 1..started[c] : Cardinality(RequestsOf(c, k)) = 1

\* A second invocation has returned the fetch error: two requests in all.
C8_Witness ==
    \E c \in DOMAIN pc :
        /\ Returned(c)
        /\ started[c] = 2
        /\ outcome[c].branch = "error"
        /\ Len(requests) = 2

\* The orders of steps an invocation may show.
StepOrders ==
    { << "fetchStart", "fetchComplete", "lookup", "response" >>,
      << "fetchStart", "fetchComplete", "summarize", "response" >>,
      << "fetchStart", "response" >> }

IsPrefix(s, t) ==
    Len(s) <= Len(t) /\ \A i \in DOMAIN s : s[i] = t[i]

\* C9: within an invocation the steps are fetch-start, fetch-complete,
\* lookup or summarize, response, in this order; a lookup or summarize step
\* occurs only after the fetch, JSON parsing included, has delivered the
\* document it works on.
C9_StrictSequencing ==
    \A c \in DOMAIN pc :
        /\ \E order \in StepOrders : IsPrefix(events[c], order)
        /\ (pc[c] \in { "awaitFetch", "awaitJson" }) => events[c] = << "fetchStart" >>
        /\ Returned(c) => events[c] \in StepOrders
        /\ (Searched(c) \/ outcome[c].branch \in { "summary", "detail", "notFound" }) =>
               /\ Delivered(c)
               /\ storiesData[c] = response[c].body.value
               /\ events[c][2] = "fetchComplete"

\* A lookup that ran after a delivered fetch.
C9_Witness ==
    \E c \in DOMAIN pc :
        /\ Returned(c)
        /\ events[c] = << "fetchStart", "fetchComplete", "lookup", "response" >>
        /\ outcome[c].branch = "detail"

\* C10: when componentName is absent and the fetch succeeds, the tool
\* returns the object { totalComponents, components, note } with
\* totalComponents the number of entries of the component mapping,
\* components the summarizer's output and note the fixed guidance.
C10_SummaryPath ==
    \A c \in DOMAIN pc :
        (Returned(c) /\ Delivered(c) /\ componentName[c] = JUndefined) =>
            /\ outcome[c].branch = "summary"
            /\ IsTextItem(c)
            /\ TextOf(c) = stringify(JObject(<<
                   Member(K_totalComponents, JNumber(Len(DeliveredEntries(c)))),
                   Member(K_components,
                          JArray(componentsSummaryOf(response[c].body.value))),
                   Member(K_note, JString(SummaryNote)) >>))

\* A summary over several components.
C10_Witness ==
    \E c \in DOMAIN pc :
        /\ Returned(c) /\ Delivered(c) /\ componentName[c] = JUndefined
        /\ outcome[c].branch = "summary"
        /\ Len(DeliveredEntries(c)) >= 3


(***************************************************************************)
(* The listing: one view per component.                                    *)
(***************************************************************************)

\* Call c has returned on the listing path: a document was delivered and
\* no name was given.
Listed(c) ==
    Returned(c) /\ Delivered(c) /\ ~NameGiven(c)

\* The views of the listing that call c serialized.
ViewsOf(c) ==
    prop(outcome[c].value, K_components).items

\* The fields a view takes over from its record.
CopiedFields ==
    { K_title, K_storyCount, K_componentPath, K_storybookUrl }

\* C11: the listing is an order-preserving projection of the delivered
\* component mapping: it has exactly one view per entry, the i-th view is
\* made from the i-th entry, and title, storyCount, componentPath and
\* storybookUrl of a view are those of its record (absent where the record
\* has none); the text returned is the serialization of that listing.
C11_OrderPreservingProjection ==
    \A c \in DOMAIN pc :
        Listed(c) =>
            /\ TextOf(c) = stringify(outcome[c].value)
            /\ Len(ViewsOf(c)) = Len(DeliveredEntries(c))
            /\ \A i \in DOMAIN DeliveredEntries(c) :
                   \A k \in CopiedFields :
                       prop(ViewsOf(c)[i], k) = prop(DeliveredEntries(c)[i].value, k)

\* A listing of three or more components has been returned, some with and
\* some without a componentPath.
C11_Witness ==
    \E c \in DOMAIN pc :
        /\ Listed(c)
        /\ Len(DeliveredEntries(c)) >= 3
        /\ \E i, j \in DOMAIN DeliveredEntries(c) :
               /\ prop(DeliveredEntries(c)[i].value, K_componentPath).t = "string"
               /\ prop(DeliveredEntries(c)[j].value, K_componentPath).t = "undefined"
               /\ prop(ViewsOf(c)[i], K_title) # prop(ViewsOf(c)[j], K_title)

\* The record has a prop mapping with at least one entry.
HasPropEntries(record) ==
    \E m \in DOMAIN record.members :
        /\ record.members[m].key = K_props
        /\ record.members[m].value.t = "object"
        /\ record.members[m].value.members # << >>

\* C12: hasProps of a view is true exactly when the record's prop mapping
\* has at least one entry; a record without a prop mapping, or with an
\* empty one, gets hasProps false.
C12_HasProps ==
    \A c \in DOMAIN pc :
        Listed(c) =>
            \A i \in DOMAIN DeliveredEntries(c) :
                prop(ViewsOf(c)[i], K_hasProps)
                    = JBoolean(HasPropEntries(DeliveredEntries(c)[i].value))

\* A listing has been returned whose records include one without props,
\* one with an empty prop mapping and one with a prop.
C12_Witness ==
    \E c \in DOMAIN pc :
        /\ Listed(c)
        /\ \E i, j, k \in DOMAIN DeliveredEntries(c) :
               /\ prop(DeliveredEntries(c)[i].value, K_props).t = "undefined"
               /\ prop(DeliveredEntries(c)[j].value, K_props) = JObject(<< >>)
               /\ HasPropEntries(DeliveredEntries(c)[k].value)
               /\ prop(ViewsOf(c)[i], K_hasProps) = JBoolean(FALSE)
               /\ prop(ViewsOf(c)[j], K_hasProps) = JBoolean(FALSE)
               /\ prop(ViewsOf(c)[k], K_hasProps) = JBoolean(TRUE)

(***************************************************************************)
(* The detail path.                                                        *)
(***************************************************************************)

\* Call c has returned with a document delivered and a name that some
\* delivered entry equals or contains.
Detailed(c) ==
    Returned(c) /\ Delivered(c) /\ NameGiven(c) /\ ~Unmatched(c)

\* The position of the entry the name of call c selects: the first entry
\* it equals, or else the first entry that contains it.
SelectedPosition(c) ==
    LET entries == DeliveredEntries(c)
        equal == { i \in DOMAIN entries : EqualsIdentity(entries[i], componentName[c].str) }
        containing == { i \in DOMAIN entries : ContainsName(entries[i], componentName[c].str) }
    IN  IF equal # { } THEN Least(equal) ELSE Least(containing)

SelectedRecord(c) ==
    DeliveredEntries(c)[SelectedPosition(c)].value

InQuotes(s) ==
    << "\"" >> \o s \o << "\"" >>

\* C13: on the detail path the value serialized is the selected record as
\* it was delivered, with no member added, dropped or altered, and the text
\* returned is its serialization, in which every member name of the record
\* appears.
C13_DetailAsReceived ==
    \A c \in DOMAIN pc :
        Detailed(c) =>
            LET record == SelectedRecord(c)
                text == TextOf(c)
            IN  /\ outcome[c].value = record
                /\ text = stringify(record)
                /\ \A m \in DOMAIN record.members :
                       LET name == InQuotes(record.members[m].key)
                       IN  Occurs(name, text)

\* A detail has been returned for a record past the first that has a prop
\* and stories, members that no listing view carries.
C13_Witness ==
    \E c \in DOMAIN pc :
        /\ Detailed(c)
        /\ SelectedPosition(c) > 1
        /\ HasPropEntries(SelectedRecord(c))
        /\ prop(SelectedRecord(c), K_stories).t = "array"
        /\ prop(SelectedRecord(c), K_stories).items # << >>
        /\ Occurs(InQuotes(K_stories), TextOf(c))

(***************************************************************************)
(* The shape of every returned value.                                      *)
(***************************************************************************)

Outcomes ==
    { "summary", "detail", "notFound", "error" }

\* s is a string: a finite sequence of single characters.
IsString(s) ==
    /\ DOMAIN s = 1..Len(s)
    /\ \A i \in DOMAIN s : Len(s[i]) = 1

\* C14: whichever of the four outcomes a call returns (listing, detail,
\* not found, fetch error), the returned value is an object with the one
\* member content, a list of exactly one item, whose type is "text" and
\* whose text is a string.
C14_Envelope ==
    \A c \in DOMAIN pc :
        Returned(c) =>
            /\ outcome[c].branch \in Outcomes
            /\ DOMAIN outcome[c].result = { "content" }
            /\ Len(outcome[c].result.content) = 1
            /\ DOMAIN outcome[c].result.content[1] = { "type", "text" }
            /\ outcome[c].result.content[1].type = "text"
            /\ IsString(outcome[c].result.content[1].text)

\* A call whose fetch failed has returned its one text item.
C14_Witness ==
    \E c \in DOMAIN pc :
        /\ Returned(c)
        /\ ~Delivered(c)
        /\ outcome[c].branch = "error"
        /\ Len(outcome[c].result.content) = 1
        /\ outcome[c].result.content[1].text # << >>

(***************************************************************************)
(* Calls of the tool side by side.                                         *)
(***************************************************************************)

\* C15: two calls that were delivered the same document and were given the
\* same name have returned the same value, whatever calls were made before
\* or between them.
C15_Idempotent ==
    \A c, d \in DOMAIN pc :
        ( /\ Returned(c) /\ Delivered(c)
          /\ Returned(d) /\ Delivered(d)
          /\ response[c].body.value = response[d].body.value
          /\ componentName[c] = componentName[d] )
        => outcome[c].result = outcome[d].result

\* Two different calls have returned on the same document and name, one of
\* them after an earlier invocation in the same slot, and the earliest call
\* of all was given something else.
C15_Witness ==
    \E c, d \in DOMAIN pc :
        /\ c # d
        /\ Returned(c) /\ Delivered(c)
        /\ Returned(d) /\ Delivered(d)
        /\ response[c].body.value = response[d].body.value
        /\ componentName[c] = componentName[d]
        /\ started[c] > 1
        /\ outcome[c].result = outcome[d].result
        /\ outcome[c].branch \in { "summary", "detail", "notFound" }

\* What one call holds: the handler's locals and its position.
LocalsOf(c) ==
    << pc[c], componentName[c], response[c], storiesData[c], outcome[c],
       events[c], started[c] >>

\* The value the handler's code gives for what call c was handed: its
\* name and the settlement of its own fetch.
AloneResult(c) ==
    IF response[c] = NoResponse
    THEN caught(outcome[c].error).result
    ELSE IF ~(response[c].status >= 200 /\ response[c].status < 300)
    THEN caught(statusError(response[c].status)).result
    ELSE IF response[c].body.kind # "json"
    THEN caught(response[c].body.error).result
    ELSE respond(response[c].body.value, componentName[c]).result

\* C16: with two calls in flight in any interleaving, every call returns
\* the value its own name and its own fetch settlement give; a step of one
\* call changes nothing another call holds; and the document a call was
\* delivered is the one it worked on, unchanged from the Response.
C16_Independent ==
    /\ [](\A c \in DOMAIN pc :
              Returned(c) =>
                  /\ outcome[c].result = AloneResult(c)
                  /\ Delivered(c) => storiesData[c] = response[c].body.value)
    /\ [][\A c \in DOMAIN pc :
              /\ pc'[c] = pc[c] => LocalsOf(c)' = LocalsOf(c)
              /\ pc[c] = "awaitJson" => response'[c] = response[c]]_vars

\* One call has run from its request to its return while the other was
\* suspended on its body with a different document and name.
C16_Witness ==
    \E c, d \in DOMAIN pc :
        /\ c # d
        /\ Returned(c) /\ Delivered(c)
        /\ requests[Len(requests)].call = c
        /\ pc[d] = "awaitJson"
        /\ response[d].body.kind = "json"
        /\ response[d].body.value # response[c].body.value
        /\ componentName[d] # componentName[c]

(***************************************************************************)
(* The resolver and letter case.                                           *)
(***************************************************************************)

\* s and t are the same string up to the case of their letters.
SameLetters(s, t) ==
    /\ Len(s) = Len(t)
    /\ \A i \in DOMAIN s :
           \/ s[i] = t[i]
           \/ \E k \in DOMAIN UpperChars :
                  { s[i], t[i] } = { UpperChars[k], LowerChars[k] }

\* Two entry sequences with the same keys and titles, entry by entry, up to
\* the case of their letters.
SameEntries(es, fs) ==
    /\ Len(es) = Len(fs)
    /\ \A i \in DOMAIN es :
           /\ SameLetters(es[i].key, fs[i].key)
           /\ SameLetters(prop(es[i].value, K_title).str, prop(fs[i].value, K_title).str)

RecasedEntries ==
    IF prop(probe.recasedData, K_components).t = "undefined" THEN << >>
    ELSE prop(probe.recasedData, K_components).members

\* C17: the resolver is blind to letter case: for two names that are equal
\* up to case, and two component mappings whose keys and titles are equal
\* up to case entry by entry, it selects the same position, or none in
\* both.
C17_CaseInsensitive ==
    ( /\ probe.phase = "output"
      /\ SameLetters(probe.componentName, probe.recasedName)
      /\ SameEntries(ProbedEntries, RecasedEntries) )
    => probe.found = probe.recasedFound

\* The resolver has selected the same entry for a name and a mapping and
\* for differently spelled ones, where only the key equals the name.
C17_Witness ==
    /\ probe.phase = "output"
    /\ probe.found > 0
    /\ probe.found = probe.recasedFound
    /\ probe.componentName # probe.recasedName
    /\ ProbedEntries[probe.found].key # RecasedEntries[probe.found].key
    /\ SameLetters(probe.componentName, ProbedEntries[probe.found].key)
    /\ probe.componentName # ProbedEntries[probe.found].key
    /\ ~ContainsName(ProbedEntries[probe.found], probe.componentName)

\* The entry's title, or its last segment, is non-empty and strictly
\* contained in the name, letter case aside.
NameContainsTitle(entry, name) ==
    LET n == toLowerCase(name)
        t == toLowerCase(prop(entry.value, K_title).str)
    IN  \/ (t # << >> /\ t # n /\ IsSubstring(t, n))
        \/ (LastSegment(t) # << >> /\ LastSegment(t) # n /\ IsSubstring(LastSegment(t), n))

\* C18: containment counts in one direction only: an entry that the name
\* neither equals nor is contained in is never selected, also when the
\* name contains its title; when no entry equals or contains the name the
\* resolver selects none.
C18_OneDirectional ==
    probe.phase = "output" =>
        /\ \A i \in DOMAIN ProbedEntries :
               ( /\ NameContainsTitle(ProbedEntries[i], probe.componentName)
                 /\ ~EqualsIdentity(ProbedEntries[i], probe.componentName)
                 /\ ~ContainsName(ProbedEntries[i], probe.componentName) )
               => probe.found # i
        /\ (ExactPositions = { } /\ PartialPositions = { }) => probe.found = 0

\* The resolver has selected none although the name contains the title of
\* an entry.
C18_Witness ==
    /\ probe.phase = "output"
    /\ probe.found = 0
    /\ ProbedEntries # << >>
    /\ \E i \in DOMAIN ProbedEntries :
           NameContainsTitle(ProbedEntries[i], probe.componentName)

(***************************************************************************)
(* One return per invocation.                                              *)
(***************************************************************************)

\* The outcome that the settlement of the fetch and the name call for.
ExpectedOutcome(c) ==
    IF ~Delivered(c) THEN "error"
    ELSE IF ~NameGiven(c) THEN "summary"
    ELSE IF Unmatched(c) THEN "notFound"
    ELSE "detail"

\* C19: an invocation whose fetch settles returns, once: it has no value
\* before it returns and keeps the one it returned; the outcome is the one
\* of the four that the settlement of the fetch and the name call for; from
\* the fetch the only step that does not return is the one to the reading of
\* the body, and from there every step returns; and with every awaited
\* promise settling, each invocation that has issued its fetch returns.
C19_SingleExit ==
    /\ [](\A c \in DOMAIN pc :
              /\ Returned(c) =>
                     /\ outcome[c].branch = ExpectedOutcome(c)
                     /\ Len(outcome[c].result.content) = 1
              /\ ~Returned(c) => outcome[c] = NoOutcome)
    /\ [][\A c \in DOMAIN pc :
              /\ (pc[c] = "done" /\ pc'[c] = "done") => outcome'[c] = outcome[c]
              /\ (pc[c] = "awaitFetch" /\ pc'[c] # "awaitFetch")
                     => pc'[c] \in { "awaitJson", "done" }
              /\ (pc[c] = "awaitJson" /\ pc'[c] # "awaitJson")
                     => pc'[c] = "done"]_vars
    /\ \A c \in { "c1" } : (pc[c] = "awaitFetch") ~> (pc[c] = "done")

\* A second invocation has returned after its body was read, on the
\* not-found outcome.
C19_Witness ==
    \E c \in DOMAIN pc :
        /\ Returned(c)
        /\ started[c] > 1
        /\ Delivered(c)
        /\ outcome[c].branch = "notFound"
        /\ ExpectedOutcome(c) = "notFound"

(***************************************************************************)
(* storyCount and title of what is returned.                               *)
(***************************************************************************)

\* The storyCount that value reports is the number of stories of record.
CountMatches(value, record) ==
    /\ prop(record, K_stories).t = "array"
    /\ prop(value, K_storyCount) = JNumber(Len(prop(record, K_stories).items))

\* The value has a non-empty title.
Titled(value) ==
    /\ prop(value, K_title).t = "string"
    /\ prop(value, K_title).str # << >>

\* As stated: every returned record and every listing view reports a
\* storyCount equal to the number of the record's stories, and has a
\* non-empty title.
C20_AsStated ==
    \A c \in DOMAIN pc :
        /\ Listed(c) =>
               \A i \in DOMAIN DeliveredEntries(c) :
                   /\ CountMatches(ViewsOf(c)[i], DeliveredEntries(c)[i].value)
                   /\ Titled(ViewsOf(c)[i])
        /\ Detailed(c) =>
               /\ CountMatches(outcome[c].value, SelectedRecord(c))
               /\ Titled(outcome[c].value)

\* C20: what is returned reports storyCount and title as the delivered
\* record holds them: the reported storyCount is the number of the record's
\* stories exactly when the delivered record's own storyCount is, and the
\* reported title is non-empty exactly when the delivered record's is; this
\* holds of every listing view and of the record of the detail path.
C20_AsReceived ==
    \A c \in DOMAIN pc :
        /\ Listed(c) =>
               \A i \in DOMAIN DeliveredEntries(c) :
                   LET record == DeliveredEntries(c)[i].value
                   IN  /\ CountMatches(ViewsOf(c)[i], record) <=> CountMatches(record, record)
                       /\ Titled(ViewsOf(c)[i]) <=> Titled(record)
        /\ Detailed(c) =>
               LET record == SelectedRecord(c)
               IN  /\ CountMatches(outcome[c].value, record) <=> CountMatches(record, record)
                   /\ Titled(outcome[c].value) <=> Titled(record)

\* A listing has been returned with one view whose storyCount is the number
\* of its record's stories and whose title is non-empty, and one view with
\* neither.
C20_Witness ==
    \E c \in DOMAIN pc :
        /\ Listed(c)
        /\ \E i, j \in DOMAIN DeliveredEntries(c) :
               /\ CountMatches(ViewsOf(c)[i], DeliveredEntries(c)[i].value)
               /\ Titled(ViewsOf(c)[i])
               /\ ~CountMatches(ViewsOf(c)[j], DeliveredEntries(c)[j].value)
               /\ ~Titled(ViewsOf(c)[j])

(***************************************************************************)
(* When the resolver finds nothing.                                        *)
(***************************************************************************)

\* The entry's key is the name, letter case aside.
KeyEquals(entry, name) ==
    SameLetters(entry.key, name)

\* The entry's title contains the name, letter case aside.
TitleContains(entry, name) ==
    \E i \in 0..Len(prop(entry.value, K_title).str) :
        \E j \in i..Len(prop(entry.value, K_title).str) :
            SameLetters(SubSeq(prop(entry.value, K_title).str, i + 1, j), name)

\* The entry's key contains the name without being it, letter case aside.
KeyStrictlyContains(entry, name) ==
    /\ ~KeyEquals(entry, name)
    /\ \E i \in 0..Len(entry.key) : \E j \in i..Len(entry.key) :
           SameLetters(SubSeq(entry.key, i + 1, j), name)

\* C26: the resolver selects none exactly when no entry's key is the name
\* and no entry's title contains the name, letter case aside; a key that
\* merely contains the name does not count.
C26_Completeness ==
    probe.phase = "output" =>
        ( probe.found = 0
          <=> \A i \in DOMAIN ProbedEntries :
                  /\ ~KeyEquals(ProbedEntries[i], probe.componentName)
                  /\ ~TitleContains(ProbedEntries[i], probe.componentName) )

\* The resolver has selected none for a name that is a proper part of an
\* entry's key.
C26_Witness ==
    /\ probe.phase = "output"
    /\ probe.found = 0
    /\ probe.componentName # << >>
    /\ \E i \in DOMAIN ProbedEntries :
           KeyStrictlyContains(ProbedEntries[i], probe.componentName)

(***************************************************************************)
(* The empty name and the document without components.                     *)
(***************************************************************************)

\* C27: a call given the empty string as name and delivered a document
\* returns the listing of all components, as a call without a name does:
\* the resolver does not run and no single record is selected.
C27_EmptyNameLists ==
    \A c \in DOMAIN pc :
        ( /\ Returned(c) /\ Delivered(c)
          /\ componentName[c] = JString(<< >>) )
        => /\ outcome[c].branch = "summary"
           /\ outcome[c].matching = 0
           /\ \A i \in DOMAIN events[c] : events[c][i] # "lookup"
           /\ prop(outcome[c].value, K_totalComponents)
                  = JNumber(Len(DeliveredEntries(c)))
           /\ Len(ViewsOf(c)) = Len(DeliveredEntries(c))
           /\ TextOf(c) = stringify(outcome[c].value)

\* A call with the empty name has returned the listing of a document that
\* has components.
C27_Witness ==
    \E c \in DOMAIN pc :
        /\ Returned(c) /\ Delivered(c)
        /\ componentName[c] = JString(<< >>)
        /\ Len(DeliveredEntries(c)) >= 2
        /\ outcome[c].branch = "summary"

\* The document delivered to call c has no components member.
Bare(c) ==
    /\ Delivered(c)
    /\ \A m \in DOMAIN response[c].body.value.members :
           response[c].body.value.members[m].key # K_components

\* "totalComponents": 0
SaidTotalZero ==
    InQuotes(K_totalComponents) \o << ":", " ", "0" >>

\* "components": []
SaidNoComponents ==
    InQuotes(K_components) \o << ":", " ", "[", "]" >>

\* C28: a delivered document without a components member is treated as
\* one with no components: with a name the answer is the not-found message
\* with nothing listed and no total, without a name it is the listing with
\* totalComponents 0 and an empty components list; neither is the
\* fetch-error message.
C28_MissingMapping ==
    \A c \in DOMAIN pc :
        (Returned(c) /\ Bare(c)) =>
            /\ outcome[c].branch # "error"
            /\ ~StartsWith(TextOf(c), SaidFailed)
            /\ NameGiven(c) =>
                   /\ outcome[c].branch = "notFound"
                   /\ TextOf(c) = SaidOpening(c)
            /\ ~NameGiven(c) =>
                   /\ outcome[c].branch = "summary"
                   /\ prop(outcome[c].value, K_totalComponents) = JNumber(0)
                   /\ ViewsOf(c) = << >>
                   /\ Occurs(SaidTotalZero, TextOf(c))
                   /\ Occurs(SaidNoComponents, TextOf(c))

\* A named call has returned on a document without components.
C28_Witness ==
    \E c \in DOMAIN pc :
        /\ Returned(c) /\ Bare(c) /\ NameGiven(c)
        /\ outcome[c].branch = "notFound"

(***************************************************************************)
(* The worker: `export default { async fetch(request, env, ctx) }`.        *)
(***************************************************************************)

\* Paths and strings of the fetch handler.
PathRoot ==
    << "/" >>

PathDocs ==
    << "/", "d", "o", "c", "s" >>

PathOpenapi ==
    << "/", "o", "p", "e", "n", "a", "p", "i", ".", "j", "s", "o", "n" >>

PathTest ==
    << "/", "t", "e", "s", "t" >>

PathSse ==
    << "/", "s", "s", "e" >>

PathSseMessage ==
    << "/", "s", "s", "e", "/", "m", "e", "s", "s", "a", "g", "e" >>

PathToolsPrefix ==
    << "/", "t", "o", "o", "l", "s", "/" >>

PathMcp ==
    << "/", "m", "c", "p" >>

NotFoundBody ==
    << "N", "o", "t", " ", "f", "o", "u", "n", "d" >>

TextHtml ==
    << "t", "e", "x", "t", "/", "h", "t", "m", "l" >>

ApplicationJson ==
    << "a", "p", "p", "l", "i", "c", "a", "t", "i", "o", "n", "/", "j", "s", "o", "n" >>

JsonRpcVersion ==
    << "2", ".", "0" >>

ToolsCall ==
    << "t", "o", "o", "l", "s", "/", "c", "a", "l", "l" >>

ParseErrorPrefix ==
    << "P", "a", "r", "s", "e", " ", "e", "r", "r", "o", "r", ":", " " >>

K_jsonrpc ==
    << "j", "s", "o", "n", "r", "p", "c" >>

K_method ==
    << "m", "e", "t", "h", "o", "d" >>

K_params ==
    << "p", "a", "r", "a", "m", "s" >>

K_arguments ==
    << "a", "r", "g", "u", "m", "e", "n", "t", "s" >>

K_error ==
    << "e", "r", "r", "o", "r" >>

K_code ==
    << "c", "o", "d", "e" >>

K_message ==
    << "m", "e", "s", "s", "a", "g", "e" >>

\* The JSON-RPC code of a parse error, and the statuses the handler sets.
ParseErrorCode == 0 - 32700

StatusBadRequest == 400

StatusNotFound == 404

StatusDefault == 200

\* String.prototype.startsWith.
startsWith(s, prefix) ==
    /\ Len(s) >= Len(prefix)
    /\ \A i \in 1..Len(prefix) : s[i] = prefix[i]

\* String.prototype.replace(pattern, replacement) with a string pattern:
\* the first occurrence is replaced, a string without one is returned as is.
replace(s, pattern, replacement) ==
    LET offsets == { off \in 0..(Len(s) - Len(pattern)) :
                       \A j \in 1..Len(pattern) : s[off + j] = pattern[j] }
    IN  IF offsets = { } THEN s
        ELSE LET first == CHOOSE off \in offsets : \A o \in offsets : off <= o
             IN  SubSeq(s, 1, first) \o replacement
                 \o SubSeq(s, first + Len(pattern) + 1, Len(s))

\* A number in JSON text.
jsonNumber(n) ==
    IF n < 0 THEN << "-" >> \o numberToString(0 - n) ELSE numberToString(n)

\* JSON.stringify(value) without indentation; members whose value is
\* undefined are left out.
RECURSIVE compactMembers(_, _)
RECURSIVE compactItems(_, _)
RECURSIVE stringifyCompact(_)
compactMembers(members, first) ==
    IF members = << >> THEN << >>
    ELSE IF Head(members).value.t = "undefined"
    THEN compactMembers(Tail(members), first)
    ELSE (IF first THEN << >> ELSE << "," >>)
         \o quote(Head(members).key) \o << ":" >>
         \o stringifyCompact(Head(members).value)
         \o compactMembers(Tail(members), FALSE)

compactItems(items, first) ==
    IF items = << >> THEN << >>
    ELSE (IF first THEN << >> ELSE << "," >>)
         \o stringifyCompact(Head(items))
         \o compactItems(Tail(items), FALSE)

stringifyCompact(value) ==
    CASE value.t = "string"  -> quote(value.str)
      [] value.t = "number"  -> jsonNumber(value.num)
      [] value.t = "boolean" ->
             IF value.bool THEN << "t", "r", "u", "e" >>
             ELSE << "f", "a", "l", "s", "e" >>
      [] value.t = "null"    -> << "n", "u", "l", "l" >>
      [] value.t = "array"   ->
             << "[" >> \o compactItems(value.items, TRUE) \o << "]" >>
      [] value.t = "object"  ->
             << "{" >> \o compactMembers(value.members, TRUE) \o << "}" >>

\* A Request as the handler sees it: method, path of its URL, and what
\* reading its body as JSON gives.
Request(method, pathname, body) ==
    [method |-> method, pathname |-> pathname, body |-> body]

NoRequest ==
    Request("none", << >>, [kind |-> "none"])

\* new Response(body, { status, headers: { "Content-Type": contentType } });
\* the two HTML pages are named, not spelled out.
HttpResponse(status, contentType, body) ==
    [status |-> status, contentType |-> contentType, body |-> body]

NoHttpResponse ==
    HttpResponse(0, << >>, [kind |-> "none"])

PageBody(page) ==
    [kind |-> "page", page |-> page]

TextBody(text) ==
    [kind |-> "text", text |-> text]

\* Fault: everything under /sse goes to the SSE handler.
routeSseByPrefix(hasTestRoute, method, pathname) ==
    IF pathname = PathRoot \/ pathname = PathDocs THEN "scalar"
    ELSE IF pathname = PathOpenapi THEN "openapi"
    ELSE IF hasTestRoute /\ pathname = PathTest THEN "test"
    ELSE IF startsWith(pathname, PathSse) THEN "sse"
    ELSE IF startsWith(pathname, PathToolsPrefix) /\ method = "POST" THEN "proxy"
    ELSE IF pathname = PathMcp THEN "mcp"
    ELSE "notFound"

\* Fault: the proxy does not look at the method.
routeToolsAnyMethod(hasTestRoute, method, pathname) ==
    IF pathname = PathRoot \/ pathname = PathDocs THEN "scalar"
    ELSE IF pathname = PathOpenapi THEN "openapi"
    ELSE IF hasTestRoute /\ pathname = PathTest THEN "test"
    ELSE IF pathname = PathSse \/ pathname = PathSseMessage THEN "sse"
    ELSE IF startsWith(pathname, PathToolsPrefix) THEN "proxy"
    ELSE IF pathname = PathMcp THEN "mcp"
    ELSE "notFound"

\* The chain of `if`s of the fetch handler: the branch that answers. The
\* /test route exists in one of the two versions of the handler only.
route(hasTestRoute, method, pathname) ==
    IF pathname = PathRoot \/ pathname = PathDocs THEN "scalar"
    ELSE IF pathname = PathOpenapi THEN "openapi"
    ELSE IF hasTestRoute /\ pathname = PathTest THEN "test"
    ELSE IF pathname = PathSse \/ pathname = PathSseMessage THEN "sse"
    ELSE IF startsWith(pathname, PathToolsPrefix) /\ method = "POST" THEN "proxy"
    ELSE IF pathname = PathMcp THEN "mcp"
    ELSE "notFound"

\* Fault: the tool is named by the last segment of the path.
toolNameOfLastSegment(pathname) ==
    pop(split(pathname, "/"))

\* url.pathname.replace("/tools/", "")
toolNameOf(pathname) ==
    replace(pathname, PathToolsPrefix, << >>)

\* The JSON-RPC message of the proxy.
mcpMessage(toolName, body, id) ==
    JObject(<< Member(K_jsonrpc, JString(JsonRpcVersion)),
               Member(K_id, JNumber(id)),
               Member(K_method, JString(ToolsCall)),
               Member(K_params, JObject(<<
                   Member(K_name, JString(toolName)),
                   Member(K_arguments, body) >>)) >>)

\* new Request(new URL("/mcp", request.url), { method: "POST", headers,
\* body: JSON.stringify(message) }); message is kept beside its text.
mcpRequestOf(toolName, body, id) ==
    [ method      |-> "POST",
      pathname    |-> PathMcp,
      contentType |-> ApplicationJson,
      message     |-> mcpMessage(toolName, body, id),
      body        |-> [kind |-> "text",
                       text |-> stringifyCompact(mcpMessage(toolName, body, id))] ]

\* The response of the proxy's catch block.
parseErrorMessage(error) ==
    JObject(<< Member(K_jsonrpc, JString(JsonRpcVersion)),
               Member(K_id, JNull),
               Member(K_error, JObject(<<
                   Member(K_code, JNumber(ParseErrorCode)),
                   Member(K_message,
                          JString(ParseErrorPrefix \o errorDescription(error))) >>)) >>)

parseErrorResponse(error) ==
    HttpResponse(StatusBadRequest, ApplicationJson,
                 TextBody(stringifyCompact(parseErrorMessage(error))))

\* Requests, bodies and collaborators' answers given to the worker.
\* "/tools/algtoolsUI"
PathToolAlgtools ==
    << "/", "t", "o", "o", "l", "s", "/", "a", "l", "g", "t", "o", "o", "l", "s", "U",
       "I" >>

\* "/tools/a/b"
PathToolNested ==
    << "/", "t", "o", "o", "l", "s", "/", "a", "/", "b" >>

\* "/tools"
PathToolsBare ==
    << "/", "t", "o", "o", "l", "s" >>

\* "/sse/other"
PathSseOther ==
    << "/", "s", "s", "e", "/", "o", "t", "h", "e", "r" >>

\* "/mcp/"
PathMcpSlash ==
    << "/", "m", "c", "p", "/" >>

\* "/Docs"
PathDocsCapital ==
    << "/", "D", "o", "c", "s" >>

\* "/other"
PathOther ==
    << "/", "o", "t", "h", "e", "r" >>

\* "/x/tools/y"
PathToolsInside ==
    << "/", "x", "/", "t", "o", "o", "l", "s", "/", "y" >>

\* "Unexpected end of JSON input"
EndOfInputMessage ==
    << "U", "n", "e", "x", "p", "e", "c", "t", "e", "d", " ", "e", "n", "d", " ", "o",
       "f", " ", "J", "S", "O", "N", " ", "i", "n", "p", "u", "t" >>

\* "componentName"
K_componentName ==
    << "c", "o", "m", "p", "o", "n", "e", "n", "t", "N", "a", "m", "e" >>

WorkerPaths ==
    { PathRoot, PathDocs, PathOpenapi, PathTest, PathSse, PathSseMessage,
      PathToolsPrefix, PathMcp, PathToolAlgtools, PathToolNested, PathToolsBare,
      PathSseOther, PathMcpSlash, PathDocsCapital, PathOther, PathToolsInside }

WorkerMethods == { "GET", "POST", "PUT" }

JsonBody(value) ==
    [kind |-> "json", value |-> value, error |-> NoError]

WorkerBodies ==
    { JsonBody(JObject(<< Member(K_componentName, JString(NameStripped)) >>)),
      JsonBody(JObject(<< >>)),
      JsonBody(JNull),
      JsonBody(JArray(<< JNumber(1), JString(NameUnknown) >>)),
      [kind |-> "malformed", value |-> JUndefined, error |-> SyntaxError],
      [kind |-> "empty", value |-> JUndefined, error |-> newError(EndOfInputMessage)] }

WorkerRequests ==
    { Request(m, p, b) : m \in WorkerMethods, p \in WorkerPaths, b \in WorkerBodies }

\* Values of Date.now().
RpcIds == { 1000, 1001 }

CollaboratorResponses ==
    { HttpResponse(200, ApplicationJson, TextBody(<< "{", "}" >>)),
      HttpResponse(202, << >>, TextBody(<< >>)),
      HttpResponse(500, ApplicationJson, TextBody(<< "n", "o" >>)) }

CollaboratorRejections == { NetworkError }

\* The handler before a request, in the version with or without /test.
WorkerStart(hasTestRoute) ==
    [ pc           |-> "idle",
      hasTestRoute |-> hasTestRoute,
      request      |-> NoRequest,
      branch       |-> "none",
      handed       |-> << >>,
      response     |-> NoHttpResponse,
      error        |-> NoError ]

workerSideVars ==
    << callVars, probe, rules, openapi, details >>

\* The handler is called: it answers itself, hands the request on (the
\* value it returns is then the collaborator's promise), or, on the proxy
\* branch, suspends reading the body.
WorkerFetch(requestPool) ==
    /\ worker.pc = "idle"
    /\ \E request \in requestPool :
           LET branch == route(worker.hasTestRoute, request.method, request.pathname)
               taken  == [worker EXCEPT !.request = request, !.branch = branch]
           IN  worker' =
                 CASE branch = "scalar" ->
                        [taken EXCEPT !.pc = "done",
                            !.response = HttpResponse(StatusDefault, TextHtml,
                                                      PageBody("SCALAR_HTML"))]
                   [] branch = "test" ->
                        [taken EXCEPT !.pc = "done",
                            !.response = HttpResponse(StatusDefault, TextHtml,
                                                      PageBody("TEST_HTML"))]
                   [] branch \in { "openapi", "sse", "mcp" } ->
                        [taken EXCEPT !.pc = "awaitCollaborator",
                            !.handed = << [to |-> branch, request |-> request] >>]
                   [] branch = "proxy" ->
                        [taken EXCEPT !.pc = "awaitBody"]
                   [] branch = "notFound" ->
                        [taken EXCEPT !.pc = "done",
                            !.response = HttpResponse(StatusNotFound, << >>,
                                                      TextBody(NotFoundBody))]
    /\ UNCHANGED workerSideVars

\* Fault: a body that does not parse is forwarded as no arguments.
ProxyBodyRejectedForwarded ==
    /\ worker.pc = "awaitBody"
    /\ worker.request.body.kind # "json"
    /\ \E id \in RpcIds :
           worker' = [worker EXCEPT
               !.pc = "awaitCollaborator",
               !.handed = << [to |-> "mcp",
                              request |-> mcpRequestOf(
                                  toolNameOf(worker.request.pathname), JNull, id)] >>]
    /\ UNCHANGED workerSideVars

\* await request.json() rejects: the catch block answers.
ProxyBodyRejected ==
    /\ worker.pc = "awaitBody"
    /\ worker.request.body.kind # "json"
    /\ worker' = [worker EXCEPT
           !.pc = "done",
           !.response = parseErrorResponse(worker.request.body.error)]
    /\ UNCHANGED workerSideVars

\* await request.json() resolves: the JSON-RPC request is built and handed
\* to MyMCP.serve("/mcp").fetch, whose promise is returned.
ProxyBodyParsed(ids) ==
    /\ worker.pc = "awaitBody"
    /\ worker.request.body.kind = "json"
    /\ \E id \in ids :
           worker' = [worker EXCEPT
               !.pc = "awaitCollaborator",
               !.handed = << [to |-> "mcp",
                              request |-> mcpRequestOf(
                                  toolNameOf(worker.request.pathname),
                                  worker.request.body.value, id)] >>]
    /\ UNCHANGED workerSideVars

\* The collaborator's promise resolves: its Response is the handler's.
CollaboratorResolves(responsePool) ==
    /\ worker.pc = "awaitCollaborator"
    /\ \E r \in responsePool :
           worker' = [worker EXCEPT !.pc = "done", !.response = r]
    /\ UNCHANGED workerSideVars

\* The collaborator's promise rejects, and with it the handler's: the
\* promise was returned, not awaited, so no catch block sees it.
CollaboratorRejects(rejectionPool) ==
    /\ worker.pc = "awaitCollaborator"
    /\ \E e \in rejectionPool :
           worker' = [worker EXCEPT !.pc = "rejected", !.error = e]
    /\ UNCHANGED workerSideVars

InitWorker ==
    /\ InitCalls({ "c1" })
    /\ probe = ProbeIdle
    /\ worker \in { WorkerStart(hasTestRoute) : hasTestRoute \in BOOLEAN }
    /\ rules = Idle
    /\ openapi = Idle
    /\ details = Idle

NextWorker ==
    \/ WorkerFetch(WorkerRequests)
    \/ ProxyBodyRejected
    \/ ProxyBodyParsed(RpcIds)
    \/ CollaboratorResolves(CollaboratorResponses)
    \/ CollaboratorRejects(CollaboratorRejections)

SpecWorker == InitWorker /\ [][NextWorker]_vars

(***************************************************************************)
(* Routing.                                                                *)
(***************************************************************************)

\* The request has been routed.
Routed ==
    worker.pc # "idle"

\* The path begins with "/tools/".
UnderTools(pathname) ==
    Len(pathname) >= 7 /\ SubSeq(pathname, 1, 7) = PathToolsPrefix

\* The branch that the list of endpoints gives a request: the pages, the
\* document, the two handlers, the proxy, and 404 for everything else.
ListedBranch(request) ==
    CASE request.pathname \in { PathRoot, PathDocs } -> "scalar"
      [] request.pathname = PathOpenapi -> "openapi"
      [] request.pathname \in { PathSse, PathSseMessage } -> "sse"
      [] request.pathname = PathMcp -> "mcp"
      [] request.method = "POST" /\ UnderTools(request.pathname) -> "proxy"
      [] OTHER -> "notFound"

\* As stated: a request takes the branch the list of endpoints gives it,
\* and one that matches no endpoint is answered 404 "Not found".
C21_AsStated ==
    Routed =>
        /\ worker.branch = ListedBranch(worker.request)
        /\ (worker.pc = "done" /\ ListedBranch(worker.request) = "notFound")
               => /\ worker.response.status = StatusNotFound
                  /\ worker.response.body = TextBody(NotFoundBody)

\* C21: every request takes exactly one branch, the one the list of
\* endpoints gives it, except that the version of the handler with the
\* legacy test page answers /test with that page. The pages are answered
\* with status 200 as text/html, a request for the document or a handler
\* is handed to that collaborator once and unchanged, and every other
\* request that is not a POST under /tools/ gets 404 "Not found".
C21_Routing ==
    Routed =>
        LET listed == ListedBranch(worker.request)
            branch == IF worker.hasTestRoute /\ worker.request.pathname = PathTest
                      THEN "test" ELSE listed
        IN  /\ worker.branch = branch
            /\ Len(worker.handed) <= 1
            /\ (worker.response # NoHttpResponse) <=> (worker.pc = "done")
            /\ branch = "scalar" =>
                   /\ worker.pc = "done" /\ worker.handed = << >>
                   /\ worker.response
                          = HttpResponse(200, TextHtml, PageBody("SCALAR_HTML"))
            /\ branch = "test" =>
                   /\ worker.pc = "done" /\ worker.handed = << >>
                   /\ worker.response
                          = HttpResponse(200, TextHtml, PageBody("TEST_HTML"))
            /\ branch \in { "openapi", "sse", "mcp" } =>
                   /\ worker.handed = << [to |-> branch, request |-> worker.request] >>
                   /\ worker.pc = "done" => worker.response \in CollaboratorResponses
            /\ branch = "notFound" =>
                   /\ worker.pc = "done" /\ worker.handed = << >>
                   /\ worker.response.status = 404
                   /\ worker.response.body = TextBody(NotFoundBody)

\* The version with the test page has answered /test with it.
C21_Witness ==
    /\ worker.pc = "done"
    /\ worker.hasTestRoute
    /\ worker.request.pathname = PathTest
    /\ worker.response.status = 200
    /\ worker.response.body = PageBody("TEST_HTML")

(***************************************************************************)
(* The tool proxy.                                                         *)
(***************************************************************************)

\* The request is a POST under /tools/ and its body has been read.
ProxyRead ==
    /\ worker.request.method = "POST"
    /\ UnderTools(worker.request.pathname)
    /\ worker.pc \notin { "idle", "awaitBody" }

\* "method":"tools/call"
SaidToolsCall ==
    InQuotes(K_method) \o << ":" >> \o InQuotes(ToolsCall)

\* C22: a POST under /tools/ whose body parses to B is handed to the MCP
\* handler exactly once, as a POST to /mcp carrying a JSON-RPC 2.0 message
\* with method "tools/call", params.name the path after "/tools/" and
\* params.arguments B; what the MCP handler answers is the response.
C22_ProxyForwards ==
    (ProxyRead /\ worker.request.body.kind = "json") =>
        /\ Len(worker.handed) = 1
        /\ worker.handed[1].to = "mcp"
        /\ LET sent == worker.handed[1].request
               params == prop(sent.message, K_params)
           IN  /\ sent.method = "POST"
               /\ sent.pathname = PathMcp
               /\ prop(sent.message, K_jsonrpc) = JString(JsonRpcVersion)
               /\ prop(sent.message, K_method) = JString(ToolsCall)
               /\ prop(params, K_name)
                      = JString(SubSeq(worker.request.pathname, 8,
                                       Len(worker.request.pathname)))
               /\ prop(params, K_arguments) = worker.request.body.value
               /\ sent.body.text = stringifyCompact(sent.message)
               /\ Occurs(SaidToolsCall, sent.body.text)
        /\ worker.pc = "done" => worker.response \in CollaboratorResponses

\* The proxy has returned the MCP handler's answer for a tool whose name
\* has a slash, called with a non-empty arguments object.
C22_Witness ==
    /\ ProxyRead
    /\ worker.pc = "done"
    /\ worker.request.pathname = PathToolNested
    /\ worker.request.body.kind = "json"
    /\ worker.request.body.value.t = "object"
    /\ worker.request.body.value.members # << >>
    /\ Len(worker.handed) = 1
    /\ worker.response.status = 200

\* "code":-32700
SaidParseCode ==
    InQuotes(K_code) \o << ":", "-", "3", "2", "7", "0", "0" >>

\* "id":null
SaidIdNull ==
    InQuotes(K_id) \o << ":", "n", "u", "l", "l" >>

\* C23: a POST under /tools/ whose body does not parse as JSON is answered
\* with status 400 and a JSON-RPC error object with code -32700 and id
\* null, and nothing is handed to the MCP handler.
C23_ProxyParseError ==
    (ProxyRead /\ worker.request.body.kind # "json") =>
        /\ worker.pc = "done"
        /\ worker.handed = << >>
        /\ worker.response.status = 400
        /\ worker.response.contentType = ApplicationJson
        /\ StartsWith(worker.response.body.text, << "{" >>)
        /\ Occurs(SaidIdNull, worker.response.body.text)
        /\ Occurs(SaidParseCode, worker.response.body.text)
        /\ Occurs(worker.request.body.error.message, worker.response.body.text)

\* The proxy has answered 400 to a POST with an empty body.
C23_Witness ==
    /\ ProxyRead
    /\ worker.request.body.kind = "empty"
    /\ worker.response.status = 400
    /\ worker.handed = << >>

\* C25: a request under /tools/ whose method is not POST is not proxied:
\* nothing is handed to the MCP handler, its body is not read, and it is
\* answered 404 "Not found".
C25_NonPostNotProxied ==
    (Routed /\ UnderTools(worker.request.pathname) /\ worker.request.method # "POST") =>
        /\ worker.pc = "done"
        /\ worker.branch = "notFound"
        /\ worker.handed = << >>
        /\ worker.response.status = 404
        /\ worker.response.body = TextBody(NotFoundBody)

\* A GET for a tool has been answered 404.
C25_Witness ==
    /\ worker.pc = "done"
    /\ worker.request.method = "GET"
    /\ worker.request.pathname = PathToolAlgtools
    /\ worker.response.status = 404

(***************************************************************************)
(* The cursorRules tool.                                                   *)
(***************************************************************************)

\* The AI-search endpoint.
AI_SEARCH_URL ==
    << "h", "t", "t", "p", "s", ":", "/", "/", "a", "p", "i", ".", "c", "l", "o", "u",
       "d", "f", "l", "a", "r", "e", ".", "c", "o", "m", "/", "c", "l", "i", "e", "n",
       "t", "/", "v", "4", "/", "a", "c", "c", "o", "u", "n", "t", "s", "/", "3", "1",
       "e", "a", "f", "a", "f", "b", "8", "6", "9", "2", "7", "b", "f", "3", "3", "e",
       "f", "3", "c", "f", "1", "6", "4", "f", "e", "6", "a", "a", "1", "5", "/", "a",
       "u", "t", "o", "r", "a", "g", "/", "r", "a", "g", "s", "/", "a", "l", "g", "t",
       "o", "o", "l", "s", "-", "c", "u", "r", "s", "o", "r", "-", "r", "u", "l", "e",
       "s", "-", "r", "a", "g", "/", "a", "i", "-", "s", "e", "a", "r", "c", "h" >>

\* "Error: Environment not initialized"
EnvNotInitialized ==
    << "E", "r", "r", "o", "r", ":", " ", "E", "n", "v", "i", "r", "o", "n", "m", "e",
       "n", "t", " ", "n", "o", "t", " ", "i", "n", "i", "t", "i", "a", "l", "i", "z",
       "e", "d" >>

\* "Error: Failed to search cursor rules. "
SearchFailedHead ==
    << "E", "r", "r", "o", "r", ":", " ", "F", "a", "i", "l", "e", "d", " ", "t", "o",
       " ", "s", "e", "a", "r", "c", "h", " ", "c", "u", "r", "s", "o", "r", " ", "r",
       "u", "l", "e", "s", ".", " " >>

\* "Status: "
SearchStatusLabel ==
    << "S", "t", "a", "t", "u", "s", ":", " " >>

\* ", Message: "
SearchMessageLabel ==
    << ",", " ", "M", "e", "s", "s", "a", "g", "e", ":", " " >>

\* "Bearer "
BearerPrefix ==
    << "B", "e", "a", "r", "e", "r", " " >>

\* An undefined value inside a template literal.
UndefinedText ==
    << "u", "n", "d", "e", "f", "i", "n", "e", "d" >>

K_query ==
    << "q", "u", "e", "r", "y" >>

\* this.env: unset, or an object whose AI_SEARCH_API_TOKEN is a string or
\* is missing.
NoEnv == [set |-> FALSE, token |-> JUndefined]

Env(token) == [set |-> TRUE, token |-> token]

\* `${value}` for a string or a missing value.
templateText(value) ==
    IF value.t = "string" THEN value.str ELSE UndefinedText

\* A value that is thrown without being an Error.
thrownString(s) == [isError |-> FALSE, message |-> << >>, str |-> s]

\* The request handed to fetch().
searchRequest(env, query) ==
    [ url           |-> AI_SEARCH_URL,
      method        |-> "POST",
      contentType   |-> ApplicationJson,
      authorization |-> BearerPrefix \o templateText(env.token),
      body          |-> stringifyCompact(JObject(<< Member(K_query, JString(query)) >>)) ]

\* `Error: Failed to search cursor rules. Status: ${response.status}, Message: ${errorText}`
searchStatusText(status, message) ==
    SearchFailedHead \o SearchStatusLabel \o numberToString(status)
        \o SearchMessageLabel \o message

\* `Error: Failed to search cursor rules. ${error instanceof Error ? error.message : String(error)}`
searchErrorText(error) ==
    SearchFailedHead \o errorDescription(error)

\* A response of the endpoint: its status and its body, which is JSON text
\* ("json": the value it parses to and its characters), other text
\* ("plain"), or a stream that breaks while it is read ("aborted").
SearchResponse(status, kind, value, text) ==
    [status |-> status, body |-> [kind |-> kind, value |-> value, text |-> text]]

NoSearchResponse == SearchResponse(0, "none", JUndefined, << >>)

\* The tool before it is called.
RulesStart(env) ==
    [ pc       |-> "idle",
      env      |-> env,
      query    |-> << >>,
      sent     |-> << >>,
      response |-> NoSearchResponse,
      branch   |-> "none",
      error    |-> NoError,
      result   |-> textResult(<< >>) ]

rulesSideVars ==
    << callVars, probe, worker, openapi, details >>

\* Fault: the request is sent whether or not the environment is set.
CursorRulesCallUnchecked(queryPool) ==
    /\ rules.pc = "idle"
    /\ \E query \in queryPool :
           rules' = [rules EXCEPT
               !.pc = "awaitFetch", !.query = query,
               !.sent = Append(rules.sent, searchRequest(rules.env, query))]
    /\ UNCHANGED rulesSideVars

\* The tool is called: without an environment it answers at once, with one
\* it sends the search request and suspends.
CursorRulesCall(queryPool) ==
    /\ rules.pc = "idle"
    /\ \E query \in queryPool :
           rules' =
               IF ~rules.env.set
               THEN [rules EXCEPT
                        !.pc = "done", !.query = query, !.branch = "noEnv",
                        !.result = textResult(EnvNotInitialized)]
               ELSE [rules EXCEPT
                        !.pc = "awaitFetch", !.query = query,
                        !.sent = Append(rules.sent, searchRequest(rules.env, query))]
    /\ UNCHANGED rulesSideVars

\* await fetch() rejects: the catch block answers.
CursorRulesFetchRejects(rejectionPool) ==
    /\ rules.pc = "awaitFetch"
    /\ \E e \in rejectionPool :
           rules' = [rules EXCEPT
               !.pc = "done", !.branch = "caught", !.error = e,
               !.result = textResult(searchErrorText(e))]
    /\ UNCHANGED rulesSideVars

\* await fetch() resolves: the handler goes on to read the body, as text
\* when the status is not OK and as JSON when it is.
CursorRulesFetchResolves(responsePool) ==
    /\ rules.pc = "awaitFetch"
    /\ \E r \in responsePool :
           rules' = [rules EXCEPT
               !.response = r,
               !.pc = IF ~ok(r.status) THEN "awaitText" ELSE "awaitJson"]
    /\ UNCHANGED rulesSideVars

\* await response.text() resolves.
CursorRulesTextResolves ==
    /\ rules.pc = "awaitText"
    /\ rules.response.body.kind # "aborted"
    /\ rules' = [rules EXCEPT
           !.pc = "done", !.branch = "status",
           !.result = textResult(searchStatusText(rules.response.status,
                                                  rules.response.body.text))]
    /\ UNCHANGED rulesSideVars

\* await response.text() or await response.json() rejects because the body
\* cannot be read: the catch block answers.
CursorRulesBodyAborts(rejectionPool) ==
    /\ rules.pc \in { "awaitText", "awaitJson" }
    /\ rules.response.body.kind = "aborted"
    /\ \E e \in rejectionPool :
           rules' = [rules EXCEPT
               !.pc = "done", !.branch = "caught", !.error = e,
               !.result = textResult(searchErrorText(e))]
    /\ UNCHANGED rulesSideVars

\* await response.json() rejects because the body is not JSON.
CursorRulesJsonRejects ==
    /\ rules.pc = "awaitJson"
    /\ rules.response.body.kind = "plain"
    /\ rules' = [rules EXCEPT
           !.pc = "done", !.branch = "caught", !.error = SyntaxError,
           !.result = textResult(searchErrorText(SyntaxError))]
    /\ UNCHANGED rulesSideVars

\* await response.json() resolves: JSON.stringify(data, null, 2).
CursorRulesJsonResolves ==
    /\ rules.pc = "awaitJson"
    /\ rules.response.body.kind = "json"
    /\ rules' = [rules EXCEPT
           !.pc = "done", !.branch = "success",
           !.result = textResult(stringify(rules.response.body.value))]
    /\ UNCHANGED rulesSideVars

\* Tokens, queries, responses and rejections.
TokenText ==
    << "t", "0", "k" >>

QueryPlain ==
    << "z", "o", "d" >>

QueryQuoted ==
    << "a", "\"", "b" >>

UnauthorizedText ==
    << "U", "n", "a", "u", "t", "h", "o", "r", "i", "z", "e", "d" >>

K_response ==
    << "r", "e", "s", "p", "o", "n", "s", "e" >>

RulesEnvs ==
    { NoEnv, Env(JString(TokenText)), Env(JUndefined) }

RulesQueries ==
    { << >>, QueryPlain, QueryQuoted }

SearchData ==
    { JNull,
      JObject(<< >>),
      JObject(<< Member(K_response, JString(QueryPlain)) >>),
      JArray(<< JNumber(1), JBoolean(TRUE) >>) }

RulesStatuses == { 200, 299, 300, 401, 500 }

RulesResponses ==
    { SearchResponse(s, "json", v, stringifyCompact(v)) :
          s \in RulesStatuses, v \in SearchData }
    \cup { SearchResponse(s, "plain", JUndefined, t) :
          s \in RulesStatuses, t \in { << >>, UnauthorizedText } }
    \cup { SearchResponse(s, "aborted", JUndefined, << >>) : s \in RulesStatuses }

RulesRejections ==
    { NetworkError, thrownString(UnauthorizedText) }

InitRules ==
    /\ InitCalls({ "c1" })
    /\ probe = ProbeIdle
    /\ worker = Idle
    /\ rules \in { RulesStart(env) : env \in RulesEnvs }
    /\ openapi = Idle
    /\ details = Idle

NextRules ==
    \/ CursorRulesCall(RulesQueries)
    \/ CursorRulesFetchRejects(RulesRejections)
    \/ CursorRulesFetchResolves(RulesResponses)
    \/ CursorRulesTextResolves
    \/ CursorRulesBodyAborts(RulesRejections)
    \/ CursorRulesJsonRejects
    \/ CursorRulesJsonResolves

SpecRules == InitRules /\ [][NextRules]_vars

(***************************************************************************)
(* cursorRules: environment guard and error handling.                      *)
(***************************************************************************)

\* The result is a single item of type "text".
RulesTextItem ==
    /\ Len(rules.result.content) = 1
    /\ rules.result.content[1].type = "text"

RulesText ==
    rules.result.content[1].text

\* C24: without an environment cursorRules returns the one text item
\* "Error: Environment not initialized" and sends nothing; with an
\* environment it sends exactly one POST to the AI-search endpoint, and
\* every way the call can end (parsed data, a status that is not OK, a
\* rejected fetch or body read) is a return of one text item, never a
\* throw; for a status that is not OK the text carries the status in
\* decimal.
C24_CursorRules ==
    /\ rules.pc # "thrown"
    /\ ~rules.env.set =>
           /\ rules.sent = << >>
           /\ rules.pc \in { "idle", "done" }
           /\ rules.pc = "done" =>
                  /\ RulesTextItem
                  /\ RulesText = EnvNotInitialized
    /\ (rules.env.set /\ rules.pc # "idle") =>
           /\ Len(rules.sent) = 1
           /\ rules.sent[1].method = "POST"
           /\ rules.sent[1].url = AI_SEARCH_URL
    /\ (rules.env.set /\ rules.pc = "done") =>
           /\ RulesTextItem
           /\ rules.branch \in { "success", "status", "caught" }
           /\ rules.branch = "success" <=>
                  (ok(rules.response.status) /\ rules.response.body.kind = "json")
           /\ rules.branch = "success" =>
                  RulesText = stringify(rules.response.body.value)
           /\ rules.branch = "status" =>
                  /\ ~ok(rules.response.status)
                  /\ Occurs(SearchStatusLabel \o numberToString(rules.response.status),
                            RulesText)
                  /\ Occurs(SearchFailedHead, RulesText)
           /\ rules.branch = "caught" =>
                  RulesText = SearchFailedHead \o errorDescription(rules.error)

\* A call without an environment has returned.
C24_Witness ==
    /\ rules.pc = "done"
    /\ ~rules.env.set
    /\ rules.branch = "noEnv"
    /\ rules.query = QueryPlain

(***************************************************************************)
(* getComponentDetails of the Storybook index variant.                     *)
(***************************************************************************)

\* "https://algtools.github.io/ui"
StorybookBaseUrl ==
    << "h", "t", "t", "p", "s", ":", "/", "/", "a", "l", "g", "t", "o", "o", "l", "s",
       ".", "g", "i", "t", "h", "u", "b", ".", "i", "o", "/", "u", "i" >>

\* "/api/stories/"
ApiStoriesPath ==
    << "/", "a", "p", "i", "/", "s", "t", "o", "r", "i", "e", "s", "/" >>

\* "/?path=/story/"
StoryPath ==
    << "/", "?", "p", "a", "t", "h", "=", "/", "s", "t", "o", "r", "y", "/" >>

\* The note of the basic form.
DetailsNote ==
    << "D", "e", "t", "a", "i", "l", "e", "d", " ", "p", "r", "o", "p", "s", " ", "i",
       "n", "f", "o", "r", "m", "a", "t", "i", "o", "n", " ", "c", "o", "u", "l", "d",
       " ", "n", "o", "t", " ", "b", "e", " ", "f", "e", "t", "c", "h", "e", "d", ".",
       " ", "V", "i", "s", "i", "t", " ", "t", "h", "e", " ", "S", "t", "o", "r", "y",
       "b", "o", "o", "k", " ", "U", "R", "L", " ", "f", "o", "r", " ", "f", "u", "l",
       "l", " ", "d", "e", "t", "a", "i", "l", "s", "." >>

ObjectObjectText ==
    << "[", "o", "b", "j", "e", "c", "t", " ", "O", "b", "j", "e", "c", "t", "]" >>

K_examples ==
    << "e", "x", "a", "m", "p", "l", "e", "s" >>

K_parameters ==
    << "p", "a", "r", "a", "m", "e", "t", "e", "r", "s" >>

K_docs ==
    << "d", "o", "c", "s" >>

K_argTypes ==
    << "a", "r", "g", "T", "y", "p", "e", "s" >>

K_source ==
    << "s", "o", "u", "r", "c", "e" >>

K_codeText ==
    << "c", "o", "d", "e" >>

K_type ==
    << "t", "y", "p", "e" >>

StoryType ==
    << "s", "t", "o", "r", "y" >>

\* Truthiness of a value: undefined, null, "", 0 and false are falsy.
jsTruthy(value) ==
    CASE value.t = "undefined" -> FALSE
      [] value.t = "null"      -> FALSE
      [] value.t = "string"    -> value.str # << >>
      [] value.t = "number"    -> value.num # 0
      [] value.t = "boolean"   -> value.bool
      [] OTHER                 -> TRUE

\* a || b
orElse(a, b) ==
    IF jsTruthy(a) THEN a ELSE b

\* value.key for a value that is neither null nor undefined: a member of an
\* object, undefined for anything else.
member(value, key) ==
    IF value.t = "object" THEN prop(value, key) ELSE JUndefined

\* value?.key
optMember(value, key) ==
    IF value.t \in { "undefined", "null" } THEN JUndefined ELSE member(value, key)

\* `${value}`
RECURSIVE templateValue(_)
templateValue(value) ==
    CASE value.t = "string"    -> value.str
      [] value.t = "number"    -> numberToString(value.num)
      [] value.t = "boolean"   ->
             IF value.bool THEN << "t", "r", "u", "e" >>
             ELSE << "f", "a", "l", "s", "e" >>
      [] value.t = "null"      -> << "n", "u", "l", "l" >>
      [] value.t = "undefined" -> UndefinedText
      [] value.t = "array"     ->
             join([i \in DOMAIN value.items |->
                      IF value.items[i].t \in { "undefined", "null" } THEN << >>
                      ELSE templateValue(value.items[i])], << "," >>)
      [] value.t = "object"    -> ObjectObjectText

\* `${baseUrl}/api/stories/${matchingStory.id}`
storyDetailUrl(baseUrl, matchingStory) ==
    baseUrl \o ApiStoriesPath \o templateValue(prop(matchingStory, K_id))

\* Fault: the basic form is returned without its note.
basicInfoWithoutNote(baseUrl, matchingStory) ==
    JObject(<<
        Member(K_name, prop(matchingStory, K_name)),
        Member(K_id, prop(matchingStory, K_id)),
        Member(K_title, prop(matchingStory, K_title)),
        Member(K_description, orElse(prop(matchingStory, K_description), JString(<< >>))),
        Member(K_componentPath, prop(matchingStory, K_componentPath)),
        Member(K_storybookUrl,
               JString(baseUrl \o StoryPath \o templateValue(prop(matchingStory, K_id))))
    >>)

\* The basic form, built from the index entry.
basicInfo(baseUrl, matchingStory) ==
    JObject(<<
        Member(K_name, prop(matchingStory, K_name)),
        Member(K_id, prop(matchingStory, K_id)),
        Member(K_title, prop(matchingStory, K_title)),
        Member(K_description, orElse(prop(matchingStory, K_description), JString(<< >>))),
        Member(K_componentPath, prop(matchingStory, K_componentPath)),
        Member(K_storybookUrl,
               JString(baseUrl \o StoryPath \o templateValue(prop(matchingStory, K_id)))),
        Member(K_note, JString(DetailsNote))
    >>)

\* The detailed form, built from the story detail with the index entry as
\* fallback; storyDetail is neither null nor undefined.
detailedInfo(baseUrl, storyDetail, matchingStory) ==
    LET parameters == member(storyDetail, K_parameters)
        docs       == optMember(parameters, K_docs)
        id         == orElse(member(storyDetail, K_id), prop(matchingStory, K_id))
    IN  JObject(<<
            Member(K_name, orElse(member(storyDetail, K_name),
                                  prop(matchingStory, K_name))),
            Member(K_id, id),
            Member(K_title, orElse(member(storyDetail, K_title),
                                   prop(matchingStory, K_title))),
            Member(K_description,
                   orElse(orElse(member(storyDetail, K_description),
                                 optMember(docs, K_description)),
                          JString(<< >>))),
            Member(K_props,
                   orElse(orElse(optMember(parameters, K_argTypes),
                                 member(storyDetail, K_argTypes)),
                          JObject(<< >>))),
            Member(K_examples,
                   orElse(optMember(optMember(docs, K_source), K_codeText),
                          JString(<< >>))),
            Member(K_storybookUrl,
                   JString(baseUrl \o StoryPath \o templateValue(id)))
        >>)

\* getComponentDetails before the handler calls it.
DetailsStart ==
    [ pc            |-> "idle",
      matchingStory |-> JUndefined,
      sent          |-> << >>,
      response      |-> NoResponse,
      exit          |-> "none",
      info          |-> JUndefined,
      result        |-> textResult(<< >>) ]

detailsSideVars ==
    << callVars, probe, worker, rules, openapi >>

\* The function returns `info`; the handler returns it as indented JSON.
detailsReturn(state, exit, info) ==
    [state EXCEPT !.pc = "done", !.exit = exit, !.info = info,
                  !.result = textResult(stringify(info))]

\* The handler calls getComponentDetails with the story it matched; the
\* function sends the request for the story detail and suspends.
GetComponentDetailsCall(storyPool) ==
    /\ details.pc = "idle"
    /\ \E story \in storyPool :
           details' = [details EXCEPT
               !.pc = "awaitFetch", !.matchingStory = story,
               !.sent = Append(details.sent, storyDetailUrl(StorybookBaseUrl, story))]
    /\ UNCHANGED detailsSideVars

\* await fetch() rejects: the empty catch block, then the basic form.
DetailFetchRejects(rejectionPool) ==
    /\ details.pc = "awaitFetch"
    /\ \E e \in rejectionPool :
           details' = detailsReturn(details, "fetchRejected",
                                    basicInfo(StorybookBaseUrl, details.matchingStory))
    /\ UNCHANGED detailsSideVars

\* await fetch() resolves: an OK response is read as JSON, any other falls
\* through to the basic form.
DetailFetchResolves(responsePool) ==
    /\ details.pc = "awaitFetch"
    /\ \E r \in responsePool :
           details' =
               IF ok(r.status)
               THEN [details EXCEPT !.pc = "awaitJson", !.response = r]
               ELSE detailsReturn([details EXCEPT !.response = r], "notOk",
                                  basicInfo(StorybookBaseUrl, details.matchingStory))
    /\ UNCHANGED detailsSideVars

\* await storyDetailResponse.json() rejects.
DetailJsonRejects ==
    /\ details.pc = "awaitJson"
    /\ details.response.body.kind # "json"
    /\ details' = detailsReturn(details, "jsonRejected",
                                basicInfo(StorybookBaseUrl, details.matchingStory))
    /\ UNCHANGED detailsSideVars

\* await storyDetailResponse.json() resolves: reading a property of null
\* throws inside the try block, anything else gives the detailed form.
DetailJsonResolves ==
    /\ details.pc = "awaitJson"
    /\ details.response.body.kind = "json"
    /\ details' =
           IF details.response.body.value.t = "null"
           THEN detailsReturn(details, "typeError",
                              basicInfo(StorybookBaseUrl, details.matchingStory))
           ELSE detailsReturn(details, "detailed",
                              detailedInfo(StorybookBaseUrl, details.response.body.value,
                                           details.matchingStory))
    /\ UNCHANGED detailsSideVars

\* Index entries of type "story" that a name can match, and story details.
StoryIdButton ==
    << "u", "i", "-", "b", "-", "-", "p" >>

StoryIdCard ==
    << "u", "i", "-", "c", "-", "-", "d" >>

StoryNamePrimary ==
    << "P", "r", "i", "m" >>

StoryTitleButton ==
    << "U", "I", "/", "B" >>

StoryPathButton ==
    << "b", ".", "t", "s", "x" >>

StoryDescription ==
    << "A", " ", "b" >>

StoryCode ==
    << "<", "B", "/", ">" >>

StoryEntries ==
    { JObject(<< Member(K_type, JString(StoryType)),
                 Member(K_id, JString(StoryIdButton)),
                 Member(K_name, JString(StoryNamePrimary)),
                 Member(K_title, JString(StoryTitleButton)),
                 Member(K_componentPath, JString(StoryPathButton)) >>),
      JObject(<< Member(K_type, JString(StoryType)),
                 Member(K_id, JString(StoryIdCard)),
                 Member(K_title, JString(StoryTitleButton)),
                 Member(K_description, JString(StoryDescription)) >>),
      JObject(<< Member(K_type, JString(StoryType)),
                 Member(K_name, JString(StoryNamePrimary)) >>) }

StoryDetails ==
    { JNull,
      JNumber(7),
      JObject(<< >>),
      JObject(<< Member(K_id, JString(StoryIdCard)),
                 Member(K_name, JString(<< >>)),
                 Member(K_parameters, JObject(<<
                     Member(K_docs, JObject(<<
                         Member(K_description, JString(StoryDescription)),
                         Member(K_source, JObject(<<
                             Member(K_codeText, JString(StoryCode)) >>)) >>)),
                     Member(K_argTypes, JObject(<<
                         Member(K_control, JString(ControlSelect)) >>)) >>)) >>),
      JObject(<< Member(K_id, JNumber(7)),
                 Member(K_parameters, JNull),
                 Member(K_argTypes, JObject(<< Member(K_title, JObject(<< >>)) >>)) >>) }

DetailStatuses == { 199, 200, 299, 300, 404 }

DetailResponses ==
    { Response(s, "json", v, NoError) : s \in DetailStatuses, v \in StoryDetails }
    \cup { Response(s, "malformed", JUndefined, SyntaxError) : s \in DetailStatuses }
    \cup { Response(s, "aborted", JUndefined, NetworkError) : s \in DetailStatuses }

InitDetails ==
    /\ InitCalls({ "c1" })
    /\ probe = ProbeIdle
    /\ worker = Idle
    /\ rules = Idle
    /\ openapi = Idle
    /\ details = DetailsStart

NextDetails ==
    \/ GetComponentDetailsCall(StoryEntries)
    \/ DetailFetchRejects(FetchRejections)
    \/ DetailFetchResolves(DetailResponses)
    \/ DetailJsonRejects
    \/ DetailJsonResolves

SpecDetails == InitDetails /\ [][NextDetails]_vars

(***************************************************************************)
(* getComponentDetails: the fallback to the index entry.                   *)
(***************************************************************************)

\* The returned object has the members of the basic form, with the values
\* of the index entry, and the fixed note.
IsBasicForm ==
    LET story == details.matchingStory
        info  == details.info
    IN  /\ ObjectKeys(info) = << K_name, K_id, K_title, K_description,
                                 K_componentPath, K_storybookUrl, K_note >>
        /\ \A key \in { K_name, K_id, K_title, K_componentPath } :
               prop(info, key) = prop(story, key)
        /\ prop(info, K_description) =
               (IF prop(story, K_description).t = "undefined" THEN JString(<< >>)
                ELSE prop(story, K_description))
        /\ prop(info, K_storybookUrl).t = "string"
        /\ Occurs(StorybookBaseUrl \o StoryPath, prop(info, K_storybookUrl).str)
        /\ prop(info, K_note) = JString(DetailsNote)

\* The returned object has the members of the detailed form.
IsDetailedForm ==
    ObjectKeys(details.info) = << K_name, K_id, K_title, K_description, K_props,
                                  K_examples, K_storybookUrl >>

\* The request was rejected, answered with a status outside 200-299, or
\* answered with a body that is not JSON.
DetailFailed ==
    \/ details.exit = "fetchRejected"
    \/ details.response.status < 200 \/ details.response.status > 299
    \/ details.response.body.kind # "json"

\* C30: getComponentDetails never throws and sends exactly one request, for
\* the detail of the matched story; when that request is rejected, is
\* answered with a status that is not OK, or its body does not parse, the
\* function returns the basic form (name, id, title, description,
\* componentPath and storybookUrl of the index entry, and the fixed note);
\* it returns the detailed form only for an OK response whose body parsed.
C30_DetailFallback ==
    /\ details.pc \in { "idle", "awaitFetch", "awaitJson", "done" }
    /\ details.pc # "idle" =>
           /\ Len(details.sent) = 1
           /\ Occurs(ApiStoriesPath, details.sent[1])
    /\ details.pc = "done" =>
           /\ IsBasicForm \/ IsDetailedForm
           /\ DetailFailed => IsBasicForm
           /\ IsDetailedForm =>
                  /\ details.exit = "detailed"
                  /\ details.response.status >= 200
                  /\ details.response.status <= 299
                  /\ details.response.body.kind = "json"
           /\ details.result = textResult(stringify(details.info))

\* An OK response whose body did not parse was answered with the basic form.
C30_Witness ==
    /\ details.pc = "done"
    /\ details.exit = "jsonRejected"
    /\ details.response.status = 200
    /\ details.response.body.kind = "malformed"
    /\ prop(details.info, K_note) = JString(DetailsNote)

(***************************************************************************)
(* generateOpenAPISpec.                                                    *)
(***************************************************************************)

\* String literals of the document.
T_boolean ==
    << "b", "o", "o", "l", "e", "a", "n" >>

T_number ==
    << "n", "u", "m", "b", "e", "r" >>

T_string ==
    << "s", "t", "r", "i", "n", "g" >>

ExampleValue ==
    << "e", "x", "a", "m", "p", "l", "e", "-", "v", "a", "l", "u", "e" >>

ExecutePrefix ==
    << "E", "x", "e", "c", "u", "t", "e", " " >>

ToolSuffix ==
    << " ", "t", "o", "o", "l" >>

CallThePrefix ==
    << "C", "a", "l", "l", " ", "t", "h", "e", " " >>

CallTheSuffix ==
    << " ", "M", "C", "P", " ", "t", "o", "o", "l", " ", "v", "i", "a", " ", "J", "S",
       "O", "N", "-", "R", "P", "C" >>

CallPrefix ==
    << "c", "a", "l", "l", "_" >>

K_tools ==
    << "t", "o", "o", "l", "s" >>

K_result ==
    << "r", "e", "s", "u", "l", "t" >>

K_inputSchema ==
    << "i", "n", "p", "u", "t", "S", "c", "h", "e", "m", "a" >>

K__def ==
    << "_", "d", "e", "f" >>

T_array ==
    << "a", "r", "r", "a", "y" >>

K_post ==
    << "p", "o", "s", "t" >>

K_summary ==
    << "s", "u", "m", "m", "a", "r", "y" >>

T_MCPJSONRPCEndpoint ==
    << "M", "C", "P", " ", "J", "S", "O", "N", "-", "R", "P", "C", " ", "E", "n", "d",
       "p", "o", "i", "n", "t" >>

T_ExecuteMCPToolsUsingJSON ==
    << "E", "x", "e", "c", "u", "t", "e", " ", "M", "C", "P", " ", "t", "o", "o", "l",
       "s", " ", "u", "s", "i", "n", "g", " ", "J", "S", "O", "N", "-", "R", "P", "C",
       " ", "p", "r", "o", "t", "o", "c", "o", "l" >>

K_operationId ==
    << "o", "p", "e", "r", "a", "t", "i", "o", "n", "I", "d" >>

T_mcpRequest ==
    << "m", "c", "p", "R", "e", "q", "u", "e", "s", "t" >>

K_requestBody ==
    << "r", "e", "q", "u", "e", "s", "t", "B", "o", "d", "y" >>

K_required ==
    << "r", "e", "q", "u", "i", "r", "e", "d" >>

K_content ==
    << "c", "o", "n", "t", "e", "n", "t" >>

K_schema ==
    << "s", "c", "h", "e", "m", "a" >>

T_object ==
    << "o", "b", "j", "e", "c", "t" >>

K_properties ==
    << "p", "r", "o", "p", "e", "r", "t", "i", "e", "s" >>

K_enum ==
    << "e", "n", "u", "m" >>

K_default ==
    << "d", "e", "f", "a", "u", "l", "t" >>

ToolsList ==
    << "t", "o", "o", "l", "s", "/", "l", "i", "s", "t" >>

T_initialize ==
    << "i", "n", "i", "t", "i", "a", "l", "i", "z", "e" >>

T_MCPMethodToCall ==
    << "M", "C", "P", " ", "m", "e", "t", "h", "o", "d", " ", "t", "o", " ", "c", "a",
       "l", "l" >>

T_MethodParameters ==
    << "M", "e", "t", "h", "o", "d", " ", "p", "a", "r", "a", "m", "e", "t", "e", "r",
       "s" >>

T_RequestID ==
    << "R", "e", "q", "u", "e", "s", "t", " ", "I", "D" >>

K_responses ==
    << "r", "e", "s", "p", "o", "n", "s", "e", "s" >>

K_200 ==
    << "2", "0", "0" >>

T_SuccessfulResponse ==
    << "S", "u", "c", "c", "e", "s", "s", "f", "u", "l", " ", "r", "e", "s", "p", "o",
       "n", "s", "e" >>

T_ToolExecutionResult ==
    << "T", "o", "o", "l", " ", "e", "x", "e", "c", "u", "t", "i", "o", "n", " ", "r",
       "e", "s", "u", "l", "t" >>

K_example ==
    << "e", "x", "a", "m", "p", "l", "e" >>

K_items ==
    << "i", "t", "e", "m", "s" >>

T_text ==
    << "t", "e", "x", "t" >>

K_400 ==
    << "4", "0", "0" >>

T_BadRequest ==
    << "B", "a", "d", " ", "r", "e", "q", "u", "e", "s", "t" >>

K_tags ==
    << "t", "a", "g", "s" >>

K_openapi ==
    << "o", "p", "e", "n", "a", "p", "i" >>

OpenApiVersion ==
    << "3", ".", "1", ".", "0" >>

K_info ==
    << "i", "n", "f", "o" >>

T_MCPToolsAPI ==
    << "M", "C", "P", " ", "T", "o", "o", "l", "s", " ", "A", "P", "I" >>

K_version ==
    << "v", "e", "r", "s", "i", "o", "n" >>

T_APIDocumentationForMCPModel ==
    << "A", "P", "I", " ", "d", "o", "c", "u", "m", "e", "n", "t", "a", "t", "i", "o",
       "n", " ", "f", "o", "r", " ", "M", "C", "P", " ", "(", "M", "o", "d", "e", "l",
       " ", "C", "o", "n", "t", "e", "x", "t", " ", "P", "r", "o", "t", "o", "c", "o",
       "l", ")", " ", "t", "o", "o", "l", "s" >>

K_servers ==
    << "s", "e", "r", "v", "e", "r", "s" >>

K_url ==
    << "u", "r", "l" >>

T_MCPServer ==
    << "M", "C", "P", " ", "S", "e", "r", "v", "e", "r" >>

K_paths ==
    << "p", "a", "t", "h", "s" >>

\* openAPISpec.paths["/mcp"]
mcpPathItem ==
    JObject(<<
        Member(K_post, JObject(<<
            Member(K_summary, JString(T_MCPJSONRPCEndpoint)),
            Member(K_description, JString(T_ExecuteMCPToolsUsingJSON)),
            Member(K_operationId, JString(T_mcpRequest)),
            Member(K_requestBody, JObject(<<
                Member(K_required, JBoolean(TRUE)),
                Member(K_content, JObject(<<
                    Member(ApplicationJson, JObject(<<
                        Member(K_schema, JObject(<<
                            Member(K_type, JString(T_object)),
                            Member(K_properties, JObject(<<
                                Member(K_jsonrpc, JObject(<<
                                    Member(K_type, JString(T_string)),
                                    Member(K_enum, JArray(<< JString(JsonRpcVersion) >>)),
                                    Member(K_default, JString(JsonRpcVersion)) >>)),
                                Member(K_method, JObject(<<
                                    Member(K_type, JString(T_string)),
                                    Member(K_enum, JArray(<< JString(ToolsList), JString(ToolsCall), JString(T_initialize) >>)),
                                    Member(K_description, JString(T_MCPMethodToCall)) >>)),
                                Member(K_params, JObject(<<
                                    Member(K_type, JString(T_object)),
                                    Member(K_description, JString(T_MethodParameters)) >>)),
                                Member(K_id, JObject(<<
                                    Member(K_type, JString(T_number)),
                                    Member(K_description, JString(T_RequestID)) >>)) >>)),
                            Member(K_required, JArray(<< JString(K_jsonrpc), JString(K_method), JString(K_id) >>)) >>)) >>)) >>)) >>)),
            Member(K_responses, JObject(<<
                Member(K_200, JObject(<<
                    Member(K_description, JString(T_SuccessfulResponse)),
                    Member(K_content, JObject(<<
                        Member(ApplicationJson, JObject(<<
                            Member(K_schema, JObject(<<
                                Member(K_type, JString(T_object)) >>)) >>)) >>)) >>)) >>)) >>)) >>)

\* The `responses` of a tool's path item.
toolResponses ==
    JObject(<<
        Member(K_200, JObject(<<
            Member(K_description, JString(T_ToolExecutionResult)),
            Member(K_content, JObject(<<
                Member(ApplicationJson, JObject(<<
                    Member(K_schema, JObject(<<
                        Member(K_type, JString(T_object)),
                        Member(K_properties, JObject(<<
                            Member(K_jsonrpc, JObject(<<
                                Member(K_type, JString(T_string)),
                                Member(K_example, JString(JsonRpcVersion)) >>)),
                            Member(K_id, JObject(<<
                                Member(K_type, JString(T_number)),
                                Member(K_example, JNumber(1)) >>)),
                            Member(K_result, JObject(<<
                                Member(K_type, JString(T_object)),
                                Member(K_properties, JObject(<<
                                    Member(K_content, JObject(<<
                                        Member(K_type, JString(T_array)),
                                        Member(K_items, JObject(<<
                                            Member(K_type, JString(T_object)),
                                            Member(K_properties, JObject(<<
                                                Member(K_type, JObject(<<
                                                    Member(K_type, JString(T_string)),
                                                    Member(K_example, JString(T_text)) >>)),
                                                Member(T_text, JObject(<<
                                                    Member(K_type, JString(T_string)),
                                                    Member(K_example, JString(T_ToolExecutionResult)) >>)) >>)) >>)) >>)) >>)) >>)) >>)) >>)) >>)) >>)) >>)),
        Member(K_400, JObject(<<
            Member(K_description, JString(T_BadRequest)),
            Member(K_content, JObject(<<
                Member(ApplicationJson, JObject(<<
                    Member(K_schema, JObject(<<
                        Member(K_type, JString(T_object)),
                        Member(K_properties, JObject(<<
                            Member(K_jsonrpc, JObject(<<
                                Member(K_type, JString(T_string)) >>)),
                            Member(K_id, JObject(<<
                                Member(K_type, JString(T_number)) >>)),
                            Member(K_error, JObject(<<
                                Member(K_type, JString(T_object)),
                                Member(K_properties, JObject(<<
                                    Member(K_code, JObject(<<
                                        Member(K_type, JString(T_number)) >>)),
                                    Member(K_message, JObject(<<
                                        Member(K_type, JString(T_string)) >>)) >>)) >>)) >>)) >>)) >>)) >>)) >>)) >>)

\* The message of the request for the tools: { jsonrpc: "2.0", id: 1,
\* method: "tools/list", params: {} }.
listMessage ==
    JObject(<<
        Member(K_jsonrpc, JString(JsonRpcVersion)),
        Member(K_id, JNumber(1)),
        Member(K_method, JString(ToolsList)),
        Member(K_params, JObject(<< >>)) >>)

\* new Request(new URL("/mcp", request.url), { method: "POST", headers,
\* body: JSON.stringify(message) })
listRequest ==
    [ method      |-> "POST",
      pathname    |-> PathMcp,
      contentType |-> ApplicationJson,
      message     |-> listMessage,
      body        |-> [kind |-> "text", text |-> stringifyCompact(listMessage)] ]

\* obj[key] = value: an existing member is replaced where it stands, a new
\* one is added at the end.
setMember(obj, key, value) ==
    IF \E i \in DOMAIN obj.members : obj.members[i].key = key
    THEN JObject([i \in DOMAIN obj.members |->
                     IF obj.members[i].key = key THEN Member(key, value)
                     ELSE obj.members[i]])
    ELSE JObject(Append(obj.members, Member(key, value)))

\* mcpData.result?.tools || []; mcpData is not null.
toolsOf(mcpData) ==
    orElse(optMember(member(mcpData, K_result), K_tools), JArray(<< >>))

\* zodToOpenAPISchema applied to parsed JSON: a value that is an instance of
\* no Zod class takes the final return, { type: "string" }.
zodToOpenAPISchema(zodSchema) ==
    JObject(<< Member(K_type, JString(T_string)) >>)

\* Fault: every declared parameter counts as required.
requiredIncludesAny(required, paramName) ==
    TRUE

\* required.includes(paramName) for an array or a string.
requiredIncludes(required, paramName) ==
    IF required.t = "array"
    THEN \E i \in DOMAIN required.items : required.items[i] = JString(paramName)
    ELSE required.t = "string" /\ includes(required.str, paramName)

\* required.length > 0
nonEmpty(required) ==
    IF required.t = "array" THEN Len(required.items) > 0
    ELSE required.t = "string" /\ Len(required.str) > 0

\* The example value of a parameter of the given schema type.
exampleValueOf(schemaType) ==
    IF schemaType = JString(T_boolean) THEN JBoolean(TRUE)
    ELSE IF schemaType = JString(T_number) THEN JNumber(0)
    ELSE JString(ExampleValue)

\* requestBodySchema.properties[paramName] for a parameter whose schema is
\* an object: with a `type` the type is copied, with a `_def` the schema is
\* converted, otherwise the parameter is a string.
propertySchemaOf(paramSchema) ==
    LET description == orElse(member(paramSchema, K_description), JString(<< >>))
    IN  IF jsTruthy(member(paramSchema, K_type))
        THEN LET schemaType   == member(paramSchema, K_type)
                 exampleValue == exampleValueOf(schemaType)
             IN  JObject(<<
                     Member(K_type, schemaType),
                     Member(K_description, description),
                     Member(K_example, exampleValue) >>)
        ELSE IF jsTruthy(member(paramSchema, K__def))
        THEN LET openApiSchema == zodToOpenAPISchema(paramSchema)
                 exampleValue  == IF member(openApiSchema, K_type) = JString(T_array)
                                  THEN JArray(<< >>)
                                  ELSE exampleValueOf(member(openApiSchema, K_type))
             IN  setMember(setMember(openApiSchema, K_description, description),
                           K_example, exampleValue)
        ELSE LET schemaType   == JString(T_string)
                 exampleValue == JString(ExampleValue)
             IN  JObject(<<
                     Member(K_type, schemaType),
                     Member(K_description, description),
                     Member(K_example, exampleValue) >>)

\* The loop over Object.entries(properties), from entry i on: schema
\* properties are set for every parameter, example members for those that
\* `required` includes.
RECURSIVE propertiesLoop(_, _, _, _, _)
propertiesLoop(entries, required, i, schemaProperties, example) ==
    IF i > Len(entries) THEN [properties |-> schemaProperties, example |-> example]
    ELSE LET paramName == entries[i].key
             property  == propertySchemaOf(entries[i].value)
         IN  propertiesLoop(entries, required, i + 1,
                 setMember(schemaProperties, paramName, property),
                 IF requiredIncludes(required, paramName)
                 THEN setMember(example, paramName, member(property, K_example))
                 ELSE example)

\* requestBodySchema after the loop.
requestBodySchemaOf(properties, required) ==
    LET looped == propertiesLoop(ObjectEntries(properties), required, 1,
                                 JObject(<< >>), JObject(<< >>))
        schema == JObject(<< Member(K_type, JString(T_object)),
                             Member(K_properties, looped.properties) >>)
    IN  IF nonEmpty(required) THEN setMember(schema, K_required, required) ELSE schema

\* example after the loop.
exampleOf(properties, required) ==
    propertiesLoop(ObjectEntries(properties), required, 1,
                   JObject(<< >>), JObject(<< >>)).example

\* `Execute ${toolName} tool`
executeSummary(toolName) ==
    ExecutePrefix \o templateValue(toolName) \o ToolSuffix

\* `Call the ${toolName} MCP tool via JSON-RPC`
callDescription(toolName) ==
    CallThePrefix \o templateValue(toolName) \o CallTheSuffix

\* `/tools/${toolName}`
toolPath(tool) ==
    PathToolsPrefix \o templateValue(member(tool, K_name))

\* openAPISpec.paths[path] of one tool.
toolPathItem(tool) ==
    LET toolName    == member(tool, K_name)
        inputSchema == orElse(member(tool, K_inputSchema), JObject(<< >>))
        properties  == orElse(member(inputSchema, K_properties), JObject(<< >>))
        required    == orElse(member(inputSchema, K_required), JArray(<< >>))
    IN  JObject(<<
            Member(K_post, JObject(<<
                Member(K_summary, orElse(member(tool, K_description), JString(executeSummary(toolName)))),
                Member(K_description, orElse(member(tool, K_description), JString(callDescription(toolName)))),
                Member(K_operationId, JString(CallPrefix \o templateValue(toolName))),
                Member(K_tags, JArray(<< toolName >>)),
                Member(K_requestBody, JObject(<<
                    Member(K_required, JBoolean(TRUE)),
                    Member(K_content, JObject(<<
                        Member(ApplicationJson, JObject(<<
                            Member(K_schema, requestBodySchemaOf(properties, required)),
                            Member(K_example, exampleOf(properties, required)) >>)) >>)) >>)),
                Member(K_responses, toolResponses) >>)) >>)

\* The loop over the tools, from tool i on.
RECURSIVE toolsLoop(_, _, _)
toolsLoop(tools, i, paths) ==
    IF i > Len(tools) THEN paths
    ELSE toolsLoop(tools, i + 1, setMember(paths, toolPath(tools[i]), toolPathItem(tools[i])))

\* The document: the fixed head, the /mcp path item, one path item per tool.
openAPISpecOf(baseUrl, version, tools) ==
    LET paths == toolsLoop(tools.items, 1,
                           setMember(JObject(<< >>), PathMcp, mcpPathItem))
    IN  JObject(<<
            Member(K_openapi, JString(OpenApiVersion)),
            Member(K_info, JObject(<<
                Member(K_title, JString(T_MCPToolsAPI)),
                Member(K_version, JString(version)),
                Member(K_description, JString(T_APIDocumentationForMCPModel)) >>)),
            Member(K_servers, JArray(<< JObject(<<
                    Member(K_url, JString(baseUrl)),
                    Member(K_description, JString(T_MCPServer)) >>) >>)),
            Member(K_paths, paths) >>)

\* generateOpenAPISpec before a request; `version` is the version of the
\* package the worker was built from.
OpenApiStart(version) ==
    [ pc       |-> "idle",
      version  |-> version,
      baseUrl  |-> << >>,
      sent     |-> << >>,
      response |-> NoResponse,
      exit     |-> "none",
      error    |-> NoError,
      document |-> JUndefined,
      result   |-> NoHttpResponse ]

openapiSideVars ==
    << callVars, probe, worker, rules, details >>

\* The function is called: it asks the MCP handler for its tools and
\* suspends.
GenerateOpenAPISpecCall(originPool) ==
    /\ openapi.pc = "idle"
    /\ \E origin \in originPool :
           openapi' = [openapi EXCEPT
               !.pc = "awaitFetch", !.baseUrl = origin,
               !.sent = Append(openapi.sent, listRequest)]
    /\ UNCHANGED openapiSideVars

\* The promise of MyMCP.serve("/mcp").fetch rejects: so does the function's.
ListFetchRejects(rejectionPool) ==
    /\ openapi.pc = "awaitFetch"
    /\ \E e \in rejectionPool :
           openapi' = [openapi EXCEPT
               !.pc = "rejected", !.exit = "fetchRejected", !.error = e]
    /\ UNCHANGED openapiSideVars

\* It resolves: the body is read as JSON whatever the status.
ListFetchResolves(responsePool) ==
    /\ openapi.pc = "awaitFetch"
    /\ \E r \in responsePool :
           openapi' = [openapi EXCEPT !.pc = "awaitJson", !.response = r]
    /\ UNCHANGED openapiSideVars

\* await mcpResponse.json() rejects.
ListJsonRejects ==
    /\ openapi.pc = "awaitJson"
    /\ openapi.response.body.kind # "json"
    /\ openapi' = [openapi EXCEPT
           !.pc = "rejected", !.exit = "jsonRejected",
           !.error = openapi.response.body.error]
    /\ UNCHANGED openapiSideVars

\* await mcpResponse.json() resolves: the document is built and returned;
\* reading `result` of null, or looping over tools that are no array,
\* throws.
ListJsonResolves ==
    /\ openapi.pc = "awaitJson"
    /\ openapi.response.body.kind = "json"
    /\ LET mcpData == openapi.response.body.value
       IN  openapi' =
             IF mcpData.t = "null" \/ toolsOf(mcpData).t # "array"
             THEN [openapi EXCEPT
                      !.pc = "rejected", !.exit = "typeError",
                      !.error = newError(TypeErrorMessage)]
             ELSE LET document == openAPISpecOf(openapi.baseUrl, openapi.version,
                                                toolsOf(mcpData))
                  IN  [openapi EXCEPT
                          !.pc = "done", !.exit = "document", !.document = document,
                          !.result = HttpResponse(StatusDefault, ApplicationJson,
                                                  TextBody(stringify(document)))]
    /\ UNCHANGED openapiSideVars

\* The tools the server registers, cursorRules and algtoolsUI, as tools/list
\* describes them, and further tools of the same make: `required` names the
\* parameters that are not optional.
T_cursorRules ==
    << "c", "u", "r", "s", "o", "r", "R", "u", "l", "e", "s" >>

T_algtoolsUI ==
    << "a", "l", "g", "t", "o", "o", "l", "s", "U", "I" >>

T_mix ==
    << "m", "i", "x" >>

T_bare ==
    << "b", "a", "r", "e" >>

K_flag ==
    << "f", "l", "a", "g" >>

K_count ==
    << "c", "o", "u", "n", "t" >>

K_label ==
    << "l", "a", "b", "e", "l" >>

K_raw ==
    << "r", "a", "w" >>

K_zod ==
    << "z", "o", "d", "2" >>

ParamDescription ==
    << "T", "h", "e", " ", "q" >>

ToolCursorRules ==
    JObject(<<
        Member(K_name, JString(T_cursorRules)),
        Member(K_inputSchema, JObject(<<
            Member(K_type, JString(T_object)),
            Member(K_properties, JObject(<<
                Member(K_query, JObject(<<
                    Member(K_type, JString(T_string)),
                    Member(K_description, JString(ParamDescription)) >>)) >>)),
            Member(K_required, JArray(<< JString(K_query) >>)) >>)) >>)

ToolAlgtoolsUI ==
    JObject(<<
        Member(K_name, JString(T_algtoolsUI)),
        Member(K_inputSchema, JObject(<<
            Member(K_type, JString(T_object)),
            Member(K_properties, JObject(<<
                Member(K_componentName, JObject(<<
                    Member(K_type, JString(T_string)) >>)) >>)) >>)) >>)

ToolMix ==
    JObject(<<
        Member(K_name, JString(T_mix)),
        Member(K_description, JString(ParamDescription)),
        Member(K_inputSchema, JObject(<<
            Member(K_type, JString(T_object)),
            Member(K_properties, JObject(<<
                Member(K_flag, JObject(<< Member(K_type, JString(T_boolean)) >>)),
                Member(K_count, JObject(<< Member(K_type, JString(T_number)) >>)),
                Member(K_label, JObject(<< Member(K_type, JString(T_string)) >>)),
                Member(K_raw, JObject(<< >>)),
                Member(K_zod, JObject(<< Member(K__def, JObject(<< >>)) >>)) >>)),
            Member(K_required, JArray(<< JString(K_flag), JString(K_zod) >>)) >>)) >>)

ToolBare ==
    JObject(<< Member(K_name, JString(T_bare)) >>)

ListedTools ==
    { ToolCursorRules, ToolAlgtoolsUI, ToolMix, ToolBare }

\* Lists of at most two tools with different names.
ToolLists ==
    { << >> }
    \cup { << t >> : t \in ListedTools }
    \cup { pair \in ListedTools \X ListedTools : pair[1] # pair[2] }

NotAcceptableMessage ==
    << "N", "o", "t", " ", "A", "c", "c", "e", "p", "t", "a", "b", "l", "e" >>

\* What the MCP handler answers: a result with tools, a result without, an
\* error.
ListData ==
    { JObject(<< Member(K_jsonrpc, JString(JsonRpcVersion)), Member(K_id, JNumber(1)),
                 Member(K_result, JObject(<< Member(K_tools, JArray(list)) >>)) >>) :
          list \in ToolLists }
    \cup { JObject(<< Member(K_jsonrpc, JString(JsonRpcVersion)), Member(K_id, JNumber(1)),
                      Member(K_result, JObject(<< >>)) >>),
           JObject(<< Member(K_jsonrpc, JString(JsonRpcVersion)), Member(K_id, JNull),
                      Member(K_error, JObject(<<
                          Member(K_message, JString(NotAcceptableMessage)) >>)) >>),
           JNull }

ListStatuses == { 200, 406 }

ListResponses ==
    { Response(s, "json", d, NoError) : s \in ListStatuses, d \in ListData }
    \cup { Response(s, "malformed", JUndefined, SyntaxError) : s \in ListStatuses }
    \cup { Response(s, "aborted", JUndefined, NetworkError) : s \in ListStatuses }

OriginWorker ==
    << "h", "t", "t", "p", "s", ":", "/", "/", "m", ".", "d", "e", "v" >>

OriginLocal ==
    << "h", "t", "t", "p", ":", "/", "/", "l", ":", "8" >>

Origins ==
    { OriginWorker, OriginLocal }

PackageVersion ==
    << "1", ".", "0", ".", "0" >>

InitOpenApi ==
    /\ InitCalls({ "c1" })
    /\ probe = ProbeIdle
    /\ worker = Idle
    /\ rules = Idle
    /\ openapi = OpenApiStart(PackageVersion)
    /\ details = Idle

NextOpenApi ==
    \/ GenerateOpenAPISpecCall(Origins)
    \/ ListFetchRejects(FetchRejections)
    \/ ListFetchResolves(ListResponses)
    \/ ListJsonRejects
    \/ ListJsonResolves

SpecOpenApi == InitOpenApi /\ [][NextOpenApi]_vars

(***************************************************************************)
(* The generated OpenAPI document.                                         *)
(***************************************************************************)

\* The tools of the received tools/list answer, none when it carries no
\* result.tools.
ListedIn(data) ==
    IF /\ \E i \in DOMAIN data.members : data.members[i].key = K_result
       /\ \E i \in DOMAIN prop(data, K_result).members :
              prop(data, K_result).members[i].key = K_tools
    THEN prop(prop(data, K_result), K_tools).items
    ELSE << >>

\* The names in a tool's `required` list.
RequiredOf(tool) ==
    LET schema == prop(tool, K_inputSchema)
    IN  IF schema.t = "object" /\ prop(schema, K_required).t = "array"
        THEN { prop(schema, K_required).items[i].str :
                   i \in DOMAIN prop(schema, K_required).items }
        ELSE { }

\* The example object of a path item.
ExampleIn(item) ==
    prop(prop(prop(prop(prop(item, K_post), K_requestBody), K_content),
              ApplicationJson), K_example)

\* The keys of a sequence, as a set.
KeySet(keys) ==
    { keys[i] : i \in DOMAIN keys }

\* C29: whenever the tools/list answer is a JSON object the document is
\* produced; its paths are /mcp followed by one /tools/<name> entry for each
\* listed tool and nothing else (so /mcp alone when the answer carries no
\* result.tools), and the example of each tool's entry has exactly the
\* parameters named in that tool's `required` list.
C29_OpenApiDocument ==
    /\ openapi.pc = "rejected" =>
           \/ openapi.exit = "fetchRejected"
           \/ openapi.response.body.kind # "json"
           \/ openapi.response.body.value.t # "object"
    /\ openapi.pc = "done" =>
           LET listed == ListedIn(openapi.response.body.value)
               paths  == prop(openapi.document, K_paths)
               keys   == ObjectKeys(paths)
           IN  /\ Len(keys) = 1 + Len(listed)
               /\ keys[1] = PathMcp
               /\ \A i \in DOMAIN listed :
                      /\ keys[i + 1] = PathToolsPrefix \o prop(listed[i], K_name).str
                      /\ KeySet(ObjectKeys(ExampleIn(paths.members[i + 1].value)))
                             = RequiredOf(listed[i])
               /\ \A i, j \in DOMAIN keys : keys[i] = keys[j] => i = j
               /\ openapi.result.status = StatusDefault
               /\ openapi.result.body = TextBody(stringify(openapi.document))

\* A document was produced for two tools, one of which has parameters that
\* are required and parameters that are not.
C29_Witness ==
    /\ openapi.pc = "done"
    /\ Len(ListedIn(openapi.response.body.value)) = 2
    /\ ListedIn(openapi.response.body.value)[2] = ToolMix
    /\ Len(ObjectKeys(prop(openapi.document, K_paths))) = 3
====
